---- MODULE Spec2Model ----
(***************************************************************************)
(* The gopls client (pkg/lsp/client/gopls.go) and its framed transport     *)
(* (pkg/lsp/protocol/transport.go) as a state machine.  Threads are the    *)
(* goroutines of the tool handlers; each runs public operations of one     *)
(* GoplsClient, a step at a time, at the granularity of the accesses to    *)
(* shared state (the closed flag, the initialized field, the client mutex, *)
(* the transport's read mutex and the two pipes of the subprocess).        *)
(***************************************************************************)
EXTENDS Integers, Sequences, FiniteSets, TLC

\* The goroutines that invoke operations on the client.
Threads == {"t1", "t2"}

\* Operations the threads may start altogether.
MaxOps == 2

\* Invocations of Initialize on one client, where Initialize is studied alone.
MaxInits == 1

\* Notifications the subprocess may push on its own.
MaxNotifs == 1

\* Frames the stdout pipe of the subprocess holds before its writes block.
MaxInbox == 2

\* GoplsClient.nextID after construction.
InitialID == 1

\* The attempts of the loop in Initialize.
MaxAttempts == 3

\* The identifier of a message that carries none (a notification).
NoID == 0

\* sync.Mutex that nobody holds.
Free == "free"

\* Tool invocations the MCP server dispatches altogether.
MaxTools == 2

\* Frames written onto one stream altogether.
MaxFrames == 3

\* Operations started on the sending side of one Transport altogether.
MaxSends == 3

\* Typed operations (GetDiagnostics, GetHover, GetCompletion) started on one
\* client altogether.
MaxQueries == 2

\* Service.lspClient == nil.
NoClient == 0

\* The clients the Service may come to spawn: one at start, one per reset.
Clients == 1..(MaxTools + 1)

VARIABLES
    \* GoplsClient
    nextID, closed, initialized, mutex,
    \* Transport
    tClosed, readMutex, reading, resultCh, leftover,
    \* subprocess: alive, frames written to its stdin, frames on its stdout
    procAlive, killCount, wire, inbox, answered, notifs,
    \* threads
    op, pc, method, id, first, attempt, cerr, nerr, errs, ret, resp, opsLeft,
    \* history of the running operation
    allocated, ans, sent, steps, wasInit,
    \* Service: its lock, its current client, the clients spawned so far, the
    \* goroutines of NewService and of the tool handlers
    clientMutex, lspClient, clients, svc, toolsLeft, serviceUp,
    \* Transport alone: the bytes on its input stream, its contentLen field,
    \* and the history of the frames written and of the results returned
    stream, ended, contentLen, written, received, queue,
    \* Transport, its writing side: the write lock, what the writer has taken,
    \* the goroutines inside SendMessage and ReceiveMessage, and history
    writeMutex, out, snd, sendFailed, sendsLeft,
    \* typed operations: the result field of the response an operation got,
    \* and the value it returned to its caller
    result, value

clientVars == <<nextID, closed, initialized, mutex>>
transVars  == <<tClosed, readMutex, reading, resultCh, leftover>>
procVars   == <<procAlive, killCount, wire, inbox, answered, notifs>>
threadVars == <<op, pc, method, id, first, attempt, cerr, nerr, errs, ret, resp, opsLeft>>
histVars   == <<allocated, ans, sent, steps, wasInit>>
serviceVars == <<clientMutex, lspClient, clients, svc, toolsLeft, serviceUp>>
\* The layers above and below the client, which the client's steps leave alone.
streamVars == <<stream, ended, contentLen, written, received, queue>>
sendVars == <<writeMutex, out, snd, sendFailed, sendsLeft>>
opVars == <<result, value>>
otherLayers == <<serviceVars, streamVars, sendVars, opVars>>
goplsVars == <<clientVars, transVars, procVars, threadVars, histVars>>
vars == <<goplsVars, otherLayers>>

(***************************************************************************)
(* Errors.  An error is the sequence of the fragments of its message, so   *)
(* that wrapping (fmt.Errorf("...: %w", err)) is concatenation and         *)
(* strings.Contains(err.Error(), w) is the search for the fragment w.      *)
(***************************************************************************)
NoErr == <<>>

Contains(err, w) == \E i \in DOMAIN err : err[i] = w

Wrap(prefix, err) == prefix \o err

ErrEOF == <<"EOF">>
ErrClientClosed == <<"client closed">>
ErrNotInitialized == <<"client not initialized">>
ErrTransportClosed == <<"transport closed">>
ErrReceiveTimeout == <<"timeout", "no response received after 30 seconds">>
ErrBrokenPipe == <<"write: broken", "pipe">>
ErrNoMatch == <<"no response with matching ID after 30 seconds">>
ErrDeserialize == <<"error deserializing JSON-RPC message">>
ErrProcessDone == <<"os: process already finished">>

(***************************************************************************)
(* Messages.                                                               *)
(***************************************************************************)
\* A message's id field is a JSON value: an integer ("int"), a number with a
\* fraction ("frac": the value id + 1/2), a string of the digits of id
\* ("string"), or absent ("none").
Request(i, m) == [kind |-> "request", id |-> i, method |-> m, form |-> "int"]

Notification(m) == [kind |-> "notification", id |-> NoID, method |-> m, form |-> "none"]

Response(i) == [kind |-> "response", id |-> i, method |-> "", form |-> "int"]

ErrorResponse(i) == [kind |-> "error", id |-> i, method |-> "", form |-> "int"]

NoMsg == [kind |-> "none", id |-> NoID, method |-> "", form |-> "none"]

\* The message m with its id written in the form f.
WithForm(m, f) == [m EXCEPT !.form = f]

\* A frame on the subprocess's stdout that is no message: a frame of the
\* shape k, which ReceiveMessage fails on.
Malformed(k) == [kind |-> "malformed", id |-> NoID, method |-> k, form |-> "none"]

IsMalformed(f) == f.kind = "malformed"

\* The messages the server may have put in an error response: the text is its
\* to choose, one that holds the word timeout too.  The text is read nowhere
\* but where call prints it into its error, and is chosen there.
ServerMessages == {"internal error", "timeout"}

\* The error of call says nothing of the server's message and code.
LSPErrorBare(text) == <<"LSP error">>

\* gopls.go 167: the error call makes of an error response.
LSPError(text) == <<"LSP error", text, "code">>

(***************************************************************************)
(* JSON values: the result field of a response (json.RawMessage) and what  *)
(* encoding/json makes of it in a map[string]any.  An object is the        *)
(* sequence of its <<key, value>> pairs, an array that of its items.       *)
(***************************************************************************)
JSON(t, text, kv, items) == [t |-> t, s |-> text, kv |-> kv, items |-> items]

\* No result field in the response: len(resp.Result) == 0.
JAbsent == JSON("absent", "", <<>>, <<>>)

JNull == JSON("null", "", <<>>, <<>>)

JString(text) == JSON("string", text, <<>>, <<>>)

JNumber(digits) == JSON("number", digits, <<>>, <<>>)

JObject(kv) == JSON("object", "", kv, <<>>)

JArray(items) == JSON("array", "", <<>>, items)

\* m[key] of a map[string]any: the value, or absent.
Get(obj, key) ==
    IF \E i \in DOMAIN obj.kv : obj.kv[i][1] = key
    THEN obj.kv[CHOOSE i \in DOMAIN obj.kv : obj.kv[i][1] = key][2]
    ELSE JAbsent

\* value.(string) succeeds.
IsString(v) == v.t = "string"

\* value.(map[string]any) succeeds.
IsMap(v) == v.t = "object"

\* value.([]any) succeeds.
IsSlice(v) == v.t = "array"

\* json.Marshal of a decoded result, as a string.
MarshalText(v) == JSON("string", "json", v.kv, v.items)

\* What the reader goroutine hands to ReceiveMessage over resultCh.
Result(m, e) == [msg |-> m, err |-> e]

NoResult == [msg |-> NoMsg, err |-> <<"empty">>]

\* The identifier is read and the counter is not advanced.
LoadInt64(n) == n

\* gopls.go 111: atomic.AddInt64(&c.nextID, 1).
AddInt64(n) == n + 1

(***************************************************************************)
(* The client when the threads start: as NewGoplsClient built it (the      *)
(* subprocess runs, nothing was written or read), or after an Initialize   *)
(* whose first attempt was answered (the state the Service hands to the    *)
(* tool handlers).                                                         *)
(***************************************************************************)
Handshake == <<Request(AddInt64(InitialID), "initialize"), Notification("initialized")>>

\* A goroutine of the Service that runs nothing: where it is, the error its
\* client operation returned, the client GetLSPClient gave it, and the locals
\* and the results of initLSPClient and resetLSPClientIfNeeded.
IdleGoroutine ==
    [pc |-> "idle", caller |-> "", err |-> NoErr, held |-> NoClient,
     old |-> NoClient, new |-> NoClient, retries |-> 0,
     initErr |-> NoErr, initRet |-> NoErr, reset |-> FALSE, tried |-> FALSE]

\* A goroutine that runs no operation of the Transport: where it is, the
\* operation and its message, the error returned, whether the operation was
\* started after a SendMessage had failed, whether it has got to the stream.
IdleSender ==
    [pc |-> "idle", op |-> "none", msg |-> NoMsg, err |-> NoErr,
     late |-> FALSE, touched |-> FALSE]

InitWith(ops) ==
    /\ initialized \in BOOLEAN
    /\ nextID = IF initialized THEN AddInt64(InitialID) ELSE InitialID
    /\ wire = IF initialized THEN Handshake ELSE <<>>
    /\ answered = IF initialized THEN {AddInt64(InitialID)} ELSE {}
    /\ allocated = IF initialized THEN <<AddInt64(InitialID)>> ELSE <<>>
    /\ closed = FALSE
    /\ mutex = Free
    /\ tClosed = FALSE
    /\ readMutex = Free
    /\ reading = FALSE
    /\ resultCh = NoResult
    /\ leftover = 0
    /\ procAlive = TRUE
    /\ killCount = 0
    /\ inbox = <<>>
    /\ notifs = 0
    /\ op = [t \in Threads |-> "none"]
    /\ pc = [t \in Threads |-> "idle"]
    /\ method = [t \in Threads |-> ""]
    /\ id = [t \in Threads |-> NoID]
    /\ first = [t \in Threads |-> TRUE]
    /\ attempt = [t \in Threads |-> 0]
    /\ cerr = [t \in Threads |-> NoErr]
    /\ nerr = [t \in Threads |-> NoErr]
    /\ errs = [t \in Threads |-> <<>>]
    /\ ret = [t \in Threads |-> NoErr]
    /\ resp = [t \in Threads |-> NoID]
    /\ opsLeft = ops
    /\ ans = [t \in Threads |-> FALSE]
    /\ sent = [t \in Threads |-> <<>>]
    /\ steps = [t \in Threads |-> <<>>]
    /\ wasInit = [t \in Threads |-> FALSE]
    /\ clientMutex = Free
    /\ lspClient = NoClient
    /\ clients = <<>>
    /\ svc = [t \in Threads |-> IdleGoroutine]
    /\ toolsLeft = MaxTools
    /\ serviceUp = FALSE
    /\ stream = <<>>
    /\ ended = FALSE
    /\ contentLen = 0
    /\ written = <<>>
    /\ received = <<>>
    /\ queue = <<>>
    /\ writeMutex = Free
    /\ out = <<>>
    /\ snd = [t \in Threads |-> IdleSender]
    /\ sendFailed = FALSE
    /\ sendsLeft = MaxSends
    /\ result = [t \in Threads |-> JAbsent]
    /\ value = [t \in Threads |-> JNull]

Init == InitWith(MaxOps)

Set(f, t, v) == [f EXCEPT ![t] = v]

\* The threads are interchangeable: the first operation is t1's.
Earlier(u, t) == u = "t1" /\ t = "t2"

\* A thread starts operation o: its locals and the operation's history are fresh.
BeginOp(t, o, m, at) ==
    /\ pc[t] = "idle"
    /\ opsLeft > 0
    /\ \A u \in Threads : Earlier(u, t) => op[u] # "none"
    /\ opsLeft' = opsLeft - 1
    /\ op' = Set(op, t, o)
    /\ method' = Set(method, t, m)
    /\ pc' = Set(pc, t, at)
    /\ id' = Set(id, t, NoID)
    /\ first' = Set(first, t, TRUE)
    /\ attempt' = Set(attempt, t, 0)
    /\ cerr' = Set(cerr, t, NoErr)
    /\ nerr' = Set(nerr, t, NoErr)
    /\ errs' = Set(errs, t, <<>>)
    /\ ret' = Set(ret, t, NoErr)
    /\ resp' = Set(resp, t, NoID)
    /\ ans' = Set(ans, t, FALSE)
    /\ sent' = Set(sent, t, <<>>)
    /\ steps' = Set(steps, t, <<>>)
    /\ wasInit' = Set(wasInit, t, FALSE)
    /\ UNCHANGED <<otherLayers, clientVars, transVars, procVars, allocated>>

(***************************************************************************)
(* Transport.SendMessage, as its caller sees it: the error it returns and  *)
(* the closed flag of the transport afterwards.  The write and the flush   *)
(* fail when the subprocess is gone (the pipe is broken).                  *)
(***************************************************************************)
SendError ==
    IF tClosed THEN ErrTransportClosed
    ELSE IF ~procAlive
         THEN Wrap(<<"failed to flush writer", "transport closed">>, ErrBrokenPipe)
         ELSE NoErr

SendClosesTransport == ~tClosed /\ ~procAlive

(***************************************************************************)
(* GoplsClient.call                                                        *)
(***************************************************************************)
\* Where call returns to.
AfterCall(o) ==
    CASE o = "Initialize" -> "init_ret"
      [] o = "Close" -> "close_exit"
      [] o = "GetHover" -> "hover_ret"
      [] o = "GetCompletion" -> "completion_ret"
      [] OTHER -> "idle"

\* call returns error e (NoErr: the response r) for request i.
CallReturns(t, i, e, r) ==
    /\ cerr' = Set(cerr, t, e)
    /\ resp' = Set(resp, t, r)
    /\ pc' = Set(pc, t, AfterCall(op[t]))
    /\ ret' = IF op[t] = "call" THEN Set(ret, t, e) ELSE ret
    /\ ans' = Set(ans, t, i \in answered)

\* The closed flag is not looked at.
LoadSkipped(c) == FALSE

\* Lines 99, 180: c.closed.Load().
Load(c) == c

\* Lines 97-103: lock, then the closed check.
CallLock(t) ==
    /\ pc[t] = "call_lock"
    /\ mutex = Free
    /\ IF Load(closed)
       THEN /\ CallReturns(t, NoID, ErrClientClosed, NoID)
            /\ UNCHANGED <<mutex, id, first>>
       ELSE /\ mutex' = t
            /\ pc' = Set(pc, t, "call_guard")
            /\ id' = Set(id, t, NoID)
            /\ first' = Set(first, t, TRUE)
            /\ UNCHANGED <<cerr, resp, ret, ans>>
    /\ UNCHANGED <<otherLayers, nextID, closed, initialized, transVars, procVars,
                   op, method, attempt, nerr, errs, opsLeft,
                   allocated, sent, steps, wasInit>>

\* No guard: every method goes through.
GuardPassesAlways(m, init) == TRUE

\* Line 105: the methods allowed before the handshake.
GuardPasses(m, init) == m = "initialize" \/ init \/ m = "shutdown"

\* Lines 105-118: the initialized guard, then the identifier.
CallGuard(t) ==
    /\ pc[t] = "call_guard"
    /\ mutex = t
    /\ IF ~GuardPasses(method[t], initialized)
       THEN /\ mutex' = Free
            /\ CallReturns(t, NoID, ErrNotInitialized, NoID)
            /\ UNCHANGED <<nextID, id, allocated>>
       ELSE /\ nextID' = AddInt64(nextID)
            /\ id' = Set(id, t, AddInt64(nextID))
            /\ allocated' = Append(allocated, AddInt64(nextID))
            /\ pc' = Set(pc, t, "call_send")
            /\ UNCHANGED <<mutex, cerr, resp, ret, ans>>
    /\ UNCHANGED <<otherLayers, closed, initialized, transVars, procVars,
                   op, method, first, attempt, nerr, errs, opsLeft,
                   sent, steps, wasInit>>

\* Lines 120-126: send under the lock; a failed send marks the client closed.
CallSend(t) ==
    /\ pc[t] = "call_send"
    /\ mutex = t
    /\ mutex' = Free
    /\ tClosed' = (tClosed \/ SendClosesTransport)
    /\ IF SendError # NoErr
       THEN /\ closed' = TRUE
            /\ CallReturns(t, id[t],
                   Wrap(<<"failed to send request", "client closed">>, SendError), NoID)
            /\ UNCHANGED <<wire, sent>>
       ELSE /\ wire' = Append(wire, Request(id[t], method[t]))
            /\ sent' = Set(sent, t, Append(sent[t], Request(id[t], method[t])))
            /\ pc' = Set(pc, t, "call_recv")
            /\ UNCHANGED <<closed, cerr, resp, ret, ans>>
    /\ UNCHANGED <<otherLayers, nextID, initialized, readMutex, reading, resultCh, leftover,
                   procAlive, killCount, inbox, answered, notifs,
                   op, method, id, first, attempt, nerr, errs, opsLeft,
                   allocated, steps, wasInit>>

\* Every failed ReceiveMessage, a timeout too, marks the client closed.
ClosedAfterAnyReceiveError(err, c) == TRUE

\* Lines 132-137: what a failed ReceiveMessage does to the closed flag.
ClosedAfterReceiveError(err, c) == IF Contains(err, "timeout") THEN c ELSE TRUE

\* Lines 133-137: the error call returns for a failed ReceiveMessage.
ReceiveErrorOfCall(err) ==
    IF Contains(err, "timeout")
    THEN Wrap(<<"timeout", "receiving response">>, err)
    ELSE Wrap(<<"failed to receive response", "client closed">>, err)

\* Line 130 on a later iteration: the 30 seconds since the send are over.
CallDeadline(t) ==
    /\ pc[t] = "call_recv"
    /\ ~first[t]
    /\ CallReturns(t, id[t], ErrNoMatch, NoID)
    /\ UNCHANGED <<otherLayers, clientVars, transVars, procVars,
                   op, method, id, first, attempt, nerr, errs, opsLeft,
                   allocated, sent, steps, wasInit>>

\* Line 131 with transport.go 91-104: ReceiveMessage takes the read lock,
\* refuses a closed transport, else starts its reader goroutine.
CallReceive(t) ==
    /\ pc[t] = "call_recv"
    /\ readMutex = Free
    /\ IF tClosed
       THEN /\ closed' = ClosedAfterReceiveError(ErrTransportClosed, closed)
            /\ CallReturns(t, id[t], ReceiveErrorOfCall(ErrTransportClosed), NoID)
            /\ UNCHANGED <<readMutex, reading, resultCh>>
       ELSE /\ readMutex' = t
            /\ reading' = TRUE
            /\ resultCh' = NoResult
            /\ pc' = Set(pc, t, "call_wait")
            /\ UNCHANGED <<closed, cerr, resp, ret, ans>>
    /\ UNCHANGED <<otherLayers, nextID, initialized, mutex, tClosed, leftover, procVars,
                   op, method, id, first, attempt, nerr, errs, opsLeft,
                   allocated, sent, steps, wasInit>>

\* transport.go 171-172: no result within 30 seconds.  ReceiveMessage returns
\* and unlocks; its reader goroutine stays behind, blocked in its read.
ReceiveTimeout(t) ==
    /\ pc[t] = "call_wait"
    /\ readMutex = t
    /\ reading
    /\ inbox = <<>>
    /\ procAlive
    /\ readMutex' = Free
    /\ reading' = FALSE
    /\ leftover' = leftover + 1
    /\ closed' = ClosedAfterReceiveError(ErrReceiveTimeout, closed)
    /\ CallReturns(t, id[t], ReceiveErrorOfCall(ErrReceiveTimeout), NoID)
    /\ UNCHANGED <<otherLayers, nextID, initialized, mutex, tClosed, resultCh, procVars,
                   op, method, id, first, attempt, nerr, errs, opsLeft,
                   allocated, sent, steps, wasInit>>

\* Lines 141-156: the type switch on resp.ID.  json.Unmarshal gives a JSON
\* number as float64; any other type is unsupported.
IDSupported(m) == m.form \in {"int", "frac"}

\* Line 143: int64(v) of the float64 v drops the fraction.
Int64(m) == m.id

\* Lines 140-161: the response is this call's when its id is the request's.
Matches(m, i) == IDSupported(m) /\ Int64(m) = i

\* transport.go 169-170 and lines 132-170: the reader's result arrives.
CallResult(t) ==
    /\ pc[t] = "call_wait"
    /\ readMutex = t
    /\ ~reading
    /\ readMutex' = Free
    /\ resultCh' = NoResult
    /\ LET r == resultCh IN
         IF r.err # NoErr
         THEN /\ closed' = ClosedAfterReceiveError(r.err, closed)
              /\ CallReturns(t, id[t], ReceiveErrorOfCall(r.err), NoID)
              /\ UNCHANGED first
         ELSE IF ~Matches(r.msg, id[t])
         THEN /\ pc' = Set(pc, t, "call_recv")
              /\ first' = Set(first, t, FALSE)
              /\ UNCHANGED <<closed, cerr, resp, ret, ans>>
         ELSE IF r.msg.kind = "error"
         THEN /\ \E text \in ServerMessages :
                   CallReturns(t, id[t], LSPError(text), NoID)
              /\ UNCHANGED <<closed, first>>
         ELSE /\ CallReturns(t, id[t], NoErr, r.msg.id)
              /\ UNCHANGED <<closed, first>>
    /\ UNCHANGED <<otherLayers, nextID, initialized, mutex, tClosed, reading, leftover, procVars,
                   op, method, id, attempt, nerr, errs, opsLeft,
                   allocated, sent, steps, wasInit>>

(***************************************************************************)
(* The reader goroutines of ReceiveMessage (transport.go 104-166).  The one *)
(* of the running ReceiveMessage delivers to resultCh; those left behind by *)
(* a timed-out ReceiveMessage still read the same stream and their result  *)
(* is never received.  Goroutines reading the unsynchronised bufio.Reader  *)
(* at once race: either one may get a frame, or the frame is garbled.      *)
(***************************************************************************)
Readers == leftover + (IF reading THEN 1 ELSE 0)

\* Some operation is running or may still start: what the subprocess and the
\* stray readers do after the last operation has returned is of no interest.
Running == opsLeft > 0 \/ \E t \in Threads : pc[t] # "idle"

\* transport.go 108, 125: the errors that close the transport.
IsStreamEnd(err) ==
    err = ErrEOF \/ Contains(err, "pipe") \/ Contains(err, "connection")

\* transport.go 186: readHeader at the end of the stream.
ReadHeaderEOF == Wrap(<<"error reading header line">>, ErrEOF)

\* transport.go 107-120.
HeaderError(err) ==
    IF IsStreamEnd(err)
    THEN Wrap(<<"error reading header", "transport closed">>, err)
    ELSE Wrap(<<"error reading header">>, err)

(***************************************************************************)
(* The frames on the stream and what readHeader and readContent make of    *)
(* them (transport.go 176-226).  The stream is a sequence of header lines, *)
(* each ended by its newline, and of content bytes.                        *)
(***************************************************************************)
\* "Content-Length: n\r\n".
LengthLine(n) == [t |-> "len", n |-> n, v |-> NoMsg]

\* "Content-Length: abc\r\n": the text after the colon is no number.
BadLengthLine(text) == [t |-> "badlen", n |-> 0, v |-> [NoMsg EXCEPT !.method = text]]

\* Another header line, "Content-Type: ...\r\n".
OtherLine == [t |-> "other", n |-> 0, v |-> NoMsg]

\* "\r\n".
BlankLine == [t |-> "blank", n |-> 0, v |-> NoMsg]

\* The bytes of content, which hold no newline: the braces of an object, the
\* fields of the message between them, a digit.
Byte(c, m) == [t |-> c, n |-> 0, v |-> m]

IsLine(b) == b.t \in {"len", "badlen", "other", "blank"}

\* json.Marshal of a message: an object.
Marshal(m) == <<Byte("{", NoMsg), Byte("fields", m), Byte("}", NoMsg)>>

\* json.Unmarshal succeeds on the bytes of an object.
Unmarshals(data) ==
    /\ Len(data) = 3
    /\ data[1].t = "{" /\ data[2].t = "fields" /\ data[3].t = "}"

Unmarshal(data) == data[2].v

\* transport.go 70-85: the frame SendMessage writes for the message m.
FrameOf(m) == <<LengthLine(Len(Marshal(m))), BlankLine>> \o Marshal(m)

\* The messages SendMessage is given.
Messages == {Request(2, "initialize"), Notification("initialized"), Response(2)}

\* The frames a peer may write: well formed; without a Content-Length
\* header, with an empty header block or with another header; with a length
\* that does not parse, "abc" or "timeout"; of length 0; of one byte; with a
\* length header in
\* lower case, which readHeader takes for another header, and a payload that
\* ends in a blank.
PeerFrames ==
    [good |-> FrameOf(Response(3)),
     bare |-> <<BlankLine>> \o Marshal(Response(4)),
     nolen |-> <<OtherLine, BlankLine>> \o Marshal(Response(5)),
     badlen |-> <<BadLengthLine("abc"), BlankLine>> \o Marshal(Response(6)),
     badtime |-> <<BadLengthLine("timeout"), BlankLine>> \o Marshal(Response(8)),
     zero |-> <<LengthLine(0), BlankLine>>,
     one |-> <<LengthLine(1), BlankLine, Byte("1", NoMsg)>>,
     padded |-> <<OtherLine, BlankLine>> \o Marshal(Response(7)) \o <<Byte(" ", NoMsg)>>]

ErrMissingLength == <<"missing Content-Length header">>
\* transport.go 199-201: strconv.Atoi names the text it could not parse.
ErrInvalidLength(text) ==
    <<"invalid Content-Length", "strconv.Atoi: parsing", text, "invalid syntax">>

\* Where the first line of s ends: the place of its newline, 0 if s holds none.
RECURSIVE LineEnd(_, _)
LineEnd(s, i) ==
    IF i > Len(s) THEN 0
    ELSE IF IsLine(s[i]) THEN i ELSE LineEnd(s, i + 1)

\* The rest of s after its first n elements.
Drop(s, n) == SubSeq(s, n + 1, Len(s))

\* transport.go 184-204: what readHeader makes of the line ReadString gives
\* it.  Content bytes before the line's own text make it a line that is
\* neither blank nor a Content-Length header.
LineKind(s, e) == IF e = 1 THEN s[1].t ELSE "other"

\* transport.go 203-211: readHeader returns the contentLen field, which a
\* Content-Length line of this header block has set, or else holds what an
\* earlier frame left.
LengthAfterHeader(seen, own, field) == IF seen THEN own ELSE field

\* transport.go 176-212, readHeader on the stream s: blocked (no whole line to
\* read), an error, or the length; with the stream and the field afterwards.
RECURSIVE ReadHeader(_, _, _, _)
ReadHeader(s, seen, own, field) ==
    LET e == LineEnd(s, 1) IN
    IF e = 0
    THEN [kind |-> "block", err |-> NoErr, len |-> 0, rest |-> s,
          field |-> LengthAfterHeader(seen, own, field)]
    ELSE CASE LineKind(s, e) = "blank" ->
                IF LengthAfterHeader(seen, own, field) = 0
                THEN [kind |-> "error", err |-> ErrMissingLength, len |-> 0,
                      rest |-> Drop(s, e),
                      field |-> LengthAfterHeader(seen, own, field)]
                ELSE [kind |-> "ok", err |-> NoErr,
                      len |-> LengthAfterHeader(seen, own, field),
                      rest |-> Drop(s, e),
                      field |-> LengthAfterHeader(seen, own, field)]
           [] LineKind(s, e) = "len" -> ReadHeader(Drop(s, e), TRUE, s[1].n, field)
           [] LineKind(s, e) = "badlen" ->
                [kind |-> "error", err |-> ErrInvalidLength(s[1].v.method),
                 len |-> 0, rest |-> Drop(s, e),
                 field |-> LengthAfterHeader(seen, own, field)]
           [] OTHER -> ReadHeader(Drop(s, e), seen, own, field)

\* transport.go 216-218: io.ReadFull at the end of the stream.
ReadContentEOF(got) ==
    Wrap(<<"error reading content">>, IF got = 0 THEN ErrEOF ELSE <<"unexpected EOF">>)

\* transport.go 124-137.
ContentError(err) ==
    IF IsStreamEnd(err)
    THEN Wrap(<<"error reading content", "transport closed">>, err)
    ELSE Wrap(<<"error reading content">>, err)

\* transport.go 106-164: one round of the reader's loop on the stream s,
\* which has ended or may still grow: blocked, an error, or a message.
ReadFrame(s, field, atEnd) ==
    LET h == ReadHeader(s, FALSE, 0, field) IN
    IF h.kind = "block"
    THEN IF atEnd
         THEN [h EXCEPT !.kind = "error", !.err = HeaderError(ReadHeaderEOF), !.rest = <<>>]
         ELSE [h EXCEPT !.field = field]
    ELSE IF h.kind = "error" THEN [h EXCEPT !.err = Wrap(<<"error reading header">>, h.err)]
    ELSE IF Len(h.rest) < h.len
    THEN IF atEnd
         THEN [h EXCEPT !.kind = "error", !.err = ContentError(ReadContentEOF(Len(h.rest))),
                        !.rest = <<>>]
         ELSE [h EXCEPT !.kind = "block", !.rest = s, !.field = field]
    ELSE IF Unmarshals(SubSeq(h.rest, 1, h.len))
    THEN [h EXCEPT !.kind = "msg", !.rest = Drop(h.rest, h.len)]
    ELSE [h EXCEPT !.kind = "error", !.err = ErrDeserialize, !.rest = Drop(h.rest, h.len)]

\* The message of the frame ReadFrame found on s.
MessageOf(s, field) ==
    LET h == ReadHeader(s, FALSE, 0, field) IN Unmarshal(SubSeq(h.rest, 1, h.len))

\* The reader gives every message as its result.
ReaderSkipsNothing(f) == FALSE

\* What a reader makes of the frame f: "skip" it (a notification), or give
\* it as its result.
ReaderSkips(f) == f.id = NoID

\* The shapes of frame that ReceiveMessage fails on whatever it read before.
MalformedKinds == {"badlen", "badtime", "zero", "one"}

\* transport.go 106-147: the error of the reader on the malformed frame f.
FrameError(f) == ReadFrame(PeerFrames[f.method], 0, FALSE).err

ReaderRead ==
    /\ reading
    /\ \/ /\ inbox # <<>>
          /\ inbox' = Tail(inbox)
          /\ IF IsMalformed(Head(inbox))
             THEN /\ reading' = FALSE
                  /\ resultCh' = Result(NoMsg, FrameError(Head(inbox)))
             ELSE IF ReaderSkips(Head(inbox))
             THEN UNCHANGED <<reading, resultCh>>
             ELSE /\ reading' = FALSE
                  /\ resultCh' = Result(Head(inbox), NoErr)
          /\ UNCHANGED tClosed
       \/ /\ inbox # <<>>
          /\ Readers > 1
          /\ inbox' = Tail(inbox)
          /\ reading' = FALSE
          /\ resultCh' = Result(NoMsg, ErrDeserialize)
          /\ UNCHANGED tClosed
       \/ /\ inbox = <<>>
          /\ ~procAlive
          /\ reading' = FALSE
          /\ resultCh' = Result(NoMsg, HeaderError(ReadHeaderEOF))
          /\ tClosed' = (tClosed \/ IsStreamEnd(ReadHeaderEOF))
          /\ UNCHANGED inbox
    /\ UNCHANGED <<otherLayers, clientVars, readMutex, leftover,
                   procAlive, killCount, wire, answered, notifs,
                   threadVars, histVars>>

LeftoverRead ==
    /\ Running
    /\ leftover > 0
    /\ \/ /\ inbox # <<>>
          /\ inbox' = Tail(inbox)
          /\ leftover' = IF ~IsMalformed(Head(inbox)) /\ ReaderSkips(Head(inbox))
                          THEN leftover ELSE leftover - 1
          /\ UNCHANGED tClosed
       \/ /\ inbox = <<>>
          /\ ~procAlive
          /\ leftover' = leftover - 1
          /\ tClosed' = (tClosed \/ IsStreamEnd(ReadHeaderEOF))
          /\ UNCHANGED inbox
    /\ UNCHANGED <<otherLayers, clientVars, readMutex, reading, resultCh,
                   procAlive, killCount, wire, answered, notifs,
                   threadVars, histVars>>

(***************************************************************************)
(* The analysis server, an opaque subprocess.                              *)
(***************************************************************************)
Requests == {i \in 1..Len(wire) : wire[i].kind = "request"}

ServerRespond ==
    /\ Running
    /\ procAlive
    /\ Len(inbox) < MaxInbox
    /\ \E i \in Requests : \E k \in {"response", "error"} :
         /\ wire[i].id \notin answered
         /\ answered' = answered \cup {wire[i].id}
         /\ inbox' = Append(inbox, IF k = "error" THEN ErrorResponse(wire[i].id)
                                   ELSE Response(wire[i].id))
    /\ UNCHANGED <<otherLayers, clientVars, transVars, procAlive, killCount, wire, notifs,
                   threadVars, histVars>>

ServerNotify ==
    /\ Running
    /\ procAlive
    /\ notifs < MaxNotifs
    /\ Len(inbox) < MaxInbox
    /\ notifs' = notifs + 1
    /\ inbox' = Append(inbox, Notification("textDocument/publishDiagnostics"))
    /\ UNCHANGED <<otherLayers, clientVars, transVars, procAlive, killCount, wire, answered,
                   threadVars, histVars>>

\* The identifiers the server may put on a message of its own: those of the
\* client's requests so far, and one the client has not used.
ServerIDs == {InitialID} \cup {allocated[i] : i \in DOMAIN allocated}

\* What the server may write that answers no request: a notification, a
\* request of its own, a response whose id is a number with a fraction or a
\* string, a malformed frame.
Unsolicited ==
    {Notification("textDocument/publishDiagnostics")}
    \cup {Request(i, "workspace/configuration") : i \in ServerIDs}
    \cup {WithForm(Response(i), f) : i \in ServerIDs, f \in {"frac", "string"}}
    \cup {Malformed(k) : k \in MalformedKinds}

ServerPush ==
    /\ Running
    /\ procAlive
    /\ notifs < MaxNotifs
    /\ Len(inbox) < MaxInbox
    /\ notifs' = notifs + 1
    /\ \E m \in Unsolicited : inbox' = Append(inbox, m)
    /\ UNCHANGED <<otherLayers, clientVars, transVars, procAlive, killCount, wire, answered,
                   threadVars, histVars>>

ServerExit ==
    /\ Running
    /\ procAlive
    /\ procAlive' = FALSE
    /\ UNCHANGED <<otherLayers, clientVars, transVars, killCount, wire, inbox, answered, notifs,
                   threadVars, histVars>>

(***************************************************************************)
(* GoplsClient.notify                                                      *)
(***************************************************************************)
\* Where notify returns to.
AfterNotify(o) ==
    CASE o = "Initialize" -> "init_notified"
      [] o = "Close" -> "close_exited"
      [] o = "GetDiagnostics" -> "diagnostics_ret"
      [] o = "GetHover" -> "hover_call"
      [] OTHER -> "idle"

NotifyReturns(t, e) ==
    /\ nerr' = Set(nerr, t, e)
    /\ pc' = Set(pc, t, AfterNotify(op[t]))
    /\ ret' = IF op[t] = "notify" THEN Set(ret, t, e) ELSE ret

\* Lines 177-182: lock, then the closed check.
NotifyLock(t) ==
    /\ pc[t] = "notify_lock"
    /\ mutex = Free
    /\ IF Load(closed)
       THEN /\ NotifyReturns(t, ErrClientClosed)
            /\ UNCHANGED mutex
       ELSE /\ mutex' = t
            /\ pc' = Set(pc, t, "notify_send")
            /\ UNCHANGED <<nerr, ret>>
    /\ UNCHANGED <<otherLayers, nextID, closed, initialized, transVars, procVars,
                   op, method, id, first, attempt, cerr, errs, resp, opsLeft,
                   histVars>>

\* Lines 184-193: send under the lock; the closed flag is left alone.
NotifySend(t) ==
    /\ pc[t] = "notify_send"
    /\ mutex = t
    /\ mutex' = Free
    /\ tClosed' = (tClosed \/ SendClosesTransport)
    /\ IF SendError # NoErr
       THEN /\ NotifyReturns(t, Wrap(<<"failed to send notification">>, SendError))
            /\ UNCHANGED <<wire, sent>>
       ELSE /\ wire' = Append(wire, Notification(method[t]))
            /\ sent' = Set(sent, t, Append(sent[t], Notification(method[t])))
            /\ NotifyReturns(t, NoErr)
    /\ UNCHANGED <<otherLayers, nextID, closed, initialized, readMutex, reading, resultCh, leftover,
                   procAlive, killCount, inbox, answered, notifs,
                   op, method, id, first, attempt, cerr, errs, resp, opsLeft,
                   allocated, ans, steps, wasInit>>

(***************************************************************************)
(* GoplsClient.Initialize                                                  *)
(***************************************************************************)
\* An operation returns e to its caller.
OpReturns(t, e) ==
    /\ ret' = Set(ret, t, e)
    /\ pc' = Set(pc, t, "idle")

\* Lines 197-199.
InitializeCheck(t) ==
    /\ pc[t] = "init_check"
    /\ IF initialized
       THEN OpReturns(t, NoErr)
       ELSE /\ pc' = Set(pc, t, "init_closed")
            /\ UNCHANGED ret
    /\ UNCHANGED <<otherLayers, clientVars, transVars, procVars,
                   op, method, id, first, attempt, cerr, nerr, errs, resp, opsLeft,
                   histVars>>

\* Lines 202-204, then the first attempt of the loop of line 268.
InitializeClosed(t) ==
    /\ pc[t] = "init_closed"
    /\ IF closed
       THEN /\ OpReturns(t, <<"cannot initialize", "client closed">>)
            /\ UNCHANGED attempt
       ELSE /\ attempt' = Set(attempt, t, 1)
            /\ pc' = Set(pc, t, "call_lock")
            /\ UNCHANGED ret
    /\ UNCHANGED <<otherLayers, clientVars, transVars, procVars,
                   op, method, id, first, cerr, nerr, errs, resp, opsLeft,
                   histVars>>

\* Lines 275-283: what the loop does with a failed attempt.
AttemptOutcome(err, n) ==
    IF Contains(err, "timeout")
    THEN IF n < MaxAttempts THEN "retry" ELSE "exhausted"
    ELSE "abort"

\* Lines 271-297: call("initialize") has returned.
InitializeRet(t) ==
    /\ pc[t] = "init_ret"
    /\ IF cerr[t] = NoErr
       THEN /\ initialized' = TRUE
            /\ method' = Set(method, t, "initialized")
            /\ pc' = Set(pc, t, "notify_lock")
            /\ UNCHANGED <<attempt, ret>>
       ELSE /\ UNCHANGED <<initialized, method>>
            /\ CASE AttemptOutcome(cerr[t], attempt[t]) = "retry" ->
                      /\ attempt' = Set(attempt, t, attempt[t] + 1)
                      /\ pc' = Set(pc, t, "call_lock")
                      /\ UNCHANGED ret
                 [] AttemptOutcome(cerr[t], attempt[t]) = "exhausted" ->
                      /\ OpReturns(t, Wrap(<<"failed to initialize after 3 attempts">>, cerr[t]))
                      /\ UNCHANGED attempt
                 [] OTHER ->
                      /\ OpReturns(t, Wrap(<<"failed to initialize (attempt n)">>, cerr[t]))
                      /\ UNCHANGED attempt
    /\ UNCHANGED <<otherLayers, nextID, closed, mutex, transVars, procVars,
                   op, id, first, cerr, nerr, errs, resp, opsLeft,
                   histVars>>

\* The initialized field is left as the handshake set it.
KeepsReady(init) == init

\* Line 296: c.initialized = false when the notification could not be sent.
RevertsReady(init) == FALSE

\* Lines 295-301: notify("initialized") has returned.
InitializeNotified(t) ==
    /\ pc[t] = "init_notified"
    /\ IF nerr[t] # NoErr
       THEN /\ initialized' = RevertsReady(initialized)
            /\ OpReturns(t, Wrap(<<"failed to send notification 'initialized'">>, nerr[t]))
       ELSE /\ OpReturns(t, NoErr)
            /\ UNCHANGED initialized
    /\ UNCHANGED <<otherLayers, nextID, closed, mutex, transVars, procVars,
                   op, method, id, first, attempt, cerr, nerr, errs, resp, opsLeft,
                   histVars>>

(***************************************************************************)
(* GoplsClient.Close                                                       *)
(***************************************************************************)
\* closed.Store(true) in place of the compare-and-swap: every Close goes on.
StoreTrue(c) == TRUE

\* Line 314: closed.CompareAndSwap(false, true) succeeds on an open client.
CompareAndSwap(c) == ~c

\* Close returns at the first step that fails.
CloseStopsOnError(err) == err = NoErr

\* Lines 321-335: Close goes on to its next step whatever the step returned.
CloseProceeds(err) == TRUE

\* The errors of errs, as line 338 prints them.
RECURSIVE Flatten(_)
Flatten(es) == IF es = <<>> THEN <<>> ELSE Head(es) \o Flatten(Tail(es))

\* Line 318 onwards: append to errs.
Collect(es, prefix, err) == IF err = NoErr THEN es ELSE Append(es, Wrap(prefix, err))

\* Lines 314-316.
CloseCAS(t) ==
    /\ pc[t] = "close_cas"
    /\ IF CompareAndSwap(closed)
       THEN /\ closed' = TRUE
            /\ pc' = Set(pc, t, "close_init")
            /\ UNCHANGED ret
       ELSE /\ OpReturns(t, NoErr)
            /\ UNCHANGED closed
    /\ UNCHANGED <<otherLayers, nextID, initialized, mutex, transVars, procVars,
                   op, method, id, first, attempt, cerr, nerr, errs, resp, opsLeft,
                   histVars>>

\* Lines 320-321: if initialized, Shutdown.
CloseInit(t) ==
    /\ pc[t] = "close_init"
    /\ wasInit' = Set(wasInit, t, initialized)
    /\ IF initialized
       THEN /\ steps' = Set(steps, t, Append(steps[t], "shutdown"))
            /\ method' = Set(method, t, "shutdown")
            /\ pc' = Set(pc, t, "call_lock")
       ELSE /\ pc' = Set(pc, t, "close_kill")
            /\ UNCHANGED <<steps, method>>
    /\ UNCHANGED <<otherLayers, clientVars, transVars, procVars,
                   op, id, first, attempt, cerr, nerr, errs, ret, resp, opsLeft,
                   allocated, ans, sent>>

\* Lines 305-308 and 321-325: Shutdown has returned; then notify("exit").
CloseExit(t) ==
    /\ pc[t] = "close_exit"
    /\ errs' = Set(errs, t,
                   Collect(errs[t], <<"error during shutdown", "failed to shutdown">>, cerr[t]))
    /\ IF CloseProceeds(cerr[t])
       THEN /\ steps' = Set(steps, t, Append(steps[t], "exit"))
            /\ method' = Set(method, t, "exit")
            /\ pc' = Set(pc, t, "notify_lock")
       ELSE /\ pc' = Set(pc, t, "close_return")
            /\ UNCHANGED <<steps, method>>
    /\ UNCHANGED <<otherLayers, clientVars, transVars, procVars,
                   op, id, first, attempt, cerr, nerr, ret, resp, opsLeft,
                   allocated, ans, sent, wasInit>>

\* Lines 325-329: notify("exit") has returned.
CloseExited(t) ==
    /\ pc[t] = "close_exited"
    /\ errs' = Set(errs, t, Collect(errs[t], <<"error sending exit notification">>, nerr[t]))
    /\ initialized' = FALSE
    /\ pc' = Set(pc, t, IF CloseProceeds(nerr[t]) THEN "close_kill" ELSE "close_return")
    /\ UNCHANGED <<otherLayers, nextID, closed, mutex, transVars, procVars,
                   op, method, id, first, attempt, cerr, nerr, ret, resp, opsLeft,
                   histVars>>

\* Lines 331-335: Process.Kill; it may fail when the process is gone already.
CloseKill(t) ==
    /\ pc[t] = "close_kill"
    /\ steps' = Set(steps, t, Append(steps[t], "kill"))
    /\ killCount' = killCount + 1
    /\ procAlive' = FALSE
    /\ \E e \in (IF procAlive THEN {NoErr} ELSE {NoErr, ErrProcessDone}) :
         errs' = Set(errs, t, Collect(errs[t], <<"error killing process">>, e))
    /\ pc' = Set(pc, t, "close_return")
    /\ UNCHANGED <<otherLayers, clientVars, transVars, wire, inbox, answered, notifs,
                   op, method, id, first, attempt, cerr, nerr, ret, resp, opsLeft,
                   allocated, ans, sent, wasInit>>

\* Lines 337-341.
CloseReturn(t) ==
    /\ pc[t] = "close_return"
    /\ OpReturns(t, IF Len(errs[t]) > 0
                    THEN Wrap(<<"errors during close">>, Flatten(errs[t]))
                    ELSE NoErr)
    /\ UNCHANGED <<otherLayers, clientVars, transVars, procVars,
                   op, method, id, first, attempt, cerr, nerr, errs, resp, opsLeft,
                   histVars>>

(***************************************************************************)
(* The typed operations GetDiagnostics, GetHover and GetCompletion         *)
(* (gopls.go 397-565).  The result field of a response is read nowhere but *)
(* where the operation decodes it, and is chosen there.                    *)
(***************************************************************************)
\* JSONRPCMessage.ParseResult into a map[string]any fails when the result
\* is absent or null or is no object.
ParseResultFails(r) == ~IsMap(r)

ErrNoHover == <<"no hover information available for this position">>

\* An operation returns the value v and the error e.
Returned(v, e) == [value |-> v, err |-> e]

\* Lines 397-403: what GetDiagnostics returns after DidOpen returned e: the
\* error of DidOpen (437) with no value, or an empty list of diagnostics.
DiagnosticsOf(e) ==
    IF e # NoErr
    THEN Returned(JNull, Wrap(<<"failed to open document">>, e))
    ELSE Returned(JArray(<<>>), NoErr)

\* The hover text is taken from the first item of the array only when the
\* contents are no string.
HoverOfFirstShapeOnly(r) ==
    IF r = JAbsent \/ r = JNull THEN Returned(JString(""), ErrNoHover)
    ELSE IF IsMap(Get(r, "contents")) /\ IsString(Get(Get(r, "contents"), "value"))
    THEN Returned(Get(Get(r, "contents"), "value"), NoErr)
    ELSE Returned(MarshalText(r), NoErr)

\* Lines 482-529: what GetHover makes of the result r of the response.
HoverOf(r) ==
    IF r = JAbsent \/ r = JNull THEN Returned(JString(""), ErrNoHover)
    ELSE IF ParseResultFails(r)
    THEN Returned(JString(""), <<"failed to decode hover result", "decode error">>)
    ELSE IF Len(r.kv) = 0 THEN Returned(JString(""), ErrNoHover)
    ELSE LET contents == Get(r, "contents") IN
         IF IsMap(contents) /\ IsString(Get(contents, "value"))
         THEN Returned(Get(contents, "value"), NoErr)
         ELSE IF IsString(contents) THEN Returned(contents, NoErr)
         ELSE IF /\ IsSlice(contents) /\ Len(contents.items) > 0
                 /\ IsMap(contents.items[1])
                 /\ IsString(Get(contents.items[1], "value"))
         THEN Returned(Get(contents.items[1], "value"), NoErr)
         ELSE Returned(MarshalText(r), NoErr)

\* The loop stops at the first item that has no string label.
RECURSIVE LabelsUntilMalformed(_)
LabelsUntilMalformed(items) ==
    IF items = <<>> THEN <<>>
    ELSE IF IsMap(Head(items)) /\ IsString(Get(Head(items), "label"))
    THEN <<Get(Head(items), "label")>> \o LabelsUntilMalformed(Tail(items))
    ELSE <<>>

\* Lines 555-561: the labels of the items that are objects with a string
\* label, in the order of the items.
RECURSIVE Labels(_)
Labels(items) ==
    IF items = <<>> THEN <<>>
    ELSE IF IsMap(Head(items)) /\ IsString(Get(Head(items), "label"))
    THEN <<Get(Head(items), "label")>> \o Labels(Tail(items))
    ELSE Labels(Tail(items))

\* Lines 548-564: what GetCompletion makes of the result r of the response.
CompletionOf(r) ==
    IF ParseResultFails(r)
    THEN Returned(JNull, <<"failed to decode completion result", "decode error">>)
    ELSE IF IsSlice(Get(r, "items"))
    THEN Returned(JArray(Labels(Get(r, "items").items)), NoErr)
    ELSE Returned(JArray(<<>>), NoErr)

\* Results the server may give to textDocument/hover: none, null, the empty
\* object, the three shapes of contents, and others.
Docs == JString("docs")

HoverResults ==
    {JAbsent, JNull, JObject(<<>>),
     JObject(<< <<"contents", JObject(<< <<"value", Docs>> >>)>> >>),
     JObject(<< <<"contents", Docs>> >>),
     JObject(<< <<"contents", JArray(<<JObject(<< <<"value", Docs>> >>)>>)>> >>),
     JObject(<< <<"contents", JObject(<< <<"kind", JString("markdown")>>, <<"value", Docs>> >>)>> >>),
     JObject(<< <<"contents", JArray(<<>>)>> >>),
     JObject(<< <<"contents", JArray(<<Docs>>)>> >>),
     JObject(<< <<"contents", JObject(<< <<"value", JNumber("1")>> >>)>> >>),
     JObject(<< <<"range", JNumber("1")>> >>),
     Docs}

\* Results the server may give to textDocument/completion.
Item(key, v) == JObject(<< <<key, v>> >>)

CompletionResults ==
    {JNull, JObject(<<>>),
     JObject(<< <<"items", JArray(<<>>)>> >>),
     JObject(<< <<"items", JArray(<<Item("label", JString("Foo")), Item("notLabel", JNumber("1"))>>)>> >>),
     JObject(<< <<"items", JArray(<<Item("notLabel", JNumber("1")), Item("label", JString("Foo")),
                                   Item("label", JString("Bar"))>>)>> >>),
     JObject(<< <<"items", JArray(<<Item("label", JNumber("1")), JString("Foo"),
                                   Item("label", JString("Bar")), Item("label", JString("Foo"))>>)>> >>),
     JObject(<< <<"items", JString("Foo")>> >>),
     JObject(<< <<"isIncomplete", JString("false")>> >>),
     JArray(<<Item("label", JString("Foo"))>>)}

\* The typed operation of t returns r to its caller.
QueryReturns(t, r) ==
    /\ OpReturns(t, r.err)
    /\ value' = Set(value, t, r.value)

\* Lines 397-403: GetDiagnostics after its DidOpen.
DiagnosticsReturn(t) ==
    /\ pc[t] = "diagnostics_ret"
    /\ QueryReturns(t, DiagnosticsOf(nerr[t]))
    /\ UNCHANGED <<serviceVars, streamVars, sendVars, result, clientVars, transVars, procVars,
                   op, method, id, first, attempt, cerr, nerr, errs, resp, opsLeft,
                   histVars>>

\* Lines 457-473: GetHover goes on to its call whatever DidOpen returned.
HoverCall(t) ==
    /\ pc[t] = "hover_call"
    /\ pc' = Set(pc, t, "call_lock")
    /\ method' = Set(method, t, "textDocument/hover")
    /\ UNCHANGED <<otherLayers, clientVars, transVars, procVars,
                   op, id, first, attempt, cerr, nerr, errs, ret, resp, opsLeft,
                   histVars>>

\* Lines 473-529: GetHover after its call.
HoverReturn(t) ==
    /\ pc[t] = "hover_ret"
    /\ IF cerr[t] # NoErr
       THEN /\ QueryReturns(t, Returned(JString(""), Wrap(<<"failed to request hover">>, cerr[t])))
            /\ UNCHANGED result
       ELSE \E r \in HoverResults :
              /\ result' = Set(result, t, r)
              /\ QueryReturns(t, HoverOf(r))
    /\ UNCHANGED <<serviceVars, streamVars, sendVars, clientVars, transVars, procVars,
                   op, method, id, first, attempt, cerr, nerr, errs, resp, opsLeft,
                   histVars>>

\* Lines 543-564: GetCompletion after its call.
CompletionReturn(t) ==
    /\ pc[t] = "completion_ret"
    /\ IF cerr[t] # NoErr
       THEN /\ QueryReturns(t, Returned(JNull, cerr[t]))
            /\ UNCHANGED result
       ELSE \E r \in CompletionResults :
              /\ result' = Set(result, t, r)
              /\ QueryReturns(t, CompletionOf(r))
    /\ UNCHANGED <<serviceVars, streamVars, sendVars, clientVars, transVars, procVars,
                   op, method, id, first, attempt, cerr, nerr, errs, resp, opsLeft,
                   histVars>>

(***************************************************************************)
(* Operations a thread starts.                                             *)
(***************************************************************************)
\* GoToDefinition and the like, and Shutdown: one call.
StartCall(t) ==
    \E m \in {"textDocument/definition", "shutdown"} : BeginOp(t, "call", m, "call_lock")

\* Initialize: the Service runs it on a client it has not published yet, and
\* retries it only one after the other (server.go 65-88).
StartInitialize(t) ==
    /\ t = "t1"
    /\ BeginOp(t, "Initialize", "initialize", "init_check")

StartClose(t) == BeginOp(t, "Close", "", "close_cas")

\* DidClose: one notify.
StartNotify(t) == BeginOp(t, "notify", "textDocument/didClose", "notify_lock")

\* GetDiagnostics and GetHover begin with DidOpen (398, 457), GetCompletion
\* with its call (543).
StartGetDiagnostics(t) ==
    BeginOp(t, "GetDiagnostics", "textDocument/didOpen", "notify_lock")

StartGetHover(t) == BeginOp(t, "GetHover", "textDocument/didOpen", "notify_lock")

StartGetCompletion(t) ==
    BeginOp(t, "GetCompletion", "textDocument/completion", "call_lock")

Query(t) ==
    \/ DiagnosticsReturn(t)
    \/ HoverCall(t)
    \/ HoverReturn(t)
    \/ CompletionReturn(t)

Call(t) ==
    \/ CallLock(t)
    \/ CallGuard(t)
    \/ CallSend(t)
    \/ CallDeadline(t)
    \/ CallReceive(t)
    \/ ReceiveTimeout(t)
    \/ CallResult(t)

Notify(t) ==
    \/ NotifyLock(t)
    \/ NotifySend(t)

Initialize(t) ==
    \/ InitializeCheck(t)
    \/ InitializeClosed(t)
    \/ InitializeRet(t)
    \/ InitializeNotified(t)

Close(t) ==
    \/ CloseCAS(t)
    \/ CloseInit(t)
    \/ CloseExit(t)
    \/ CloseExited(t)
    \/ CloseKill(t)
    \/ CloseReturn(t)

\* The subprocess and the reader goroutines.
Environment ==
    \/ ReaderRead
    \/ LeftoverRead
    \/ ServerRespond
    \/ ServerExit

\* Every operation, in any interleaving.
Next ==
    \/ \E t \in Threads : StartCall(t) \/ StartInitialize(t) \/ StartClose(t) \/ StartNotify(t)
    \/ \E t \in Threads : Call(t) \/ Notify(t) \/ Initialize(t) \/ Close(t)
    \/ Environment
    \/ ServerNotify

Spec == Init /\ [][Next]_vars

\* Callers of call only.
NextCalls ==
    \/ \E t \in Threads : StartCall(t)
    \/ \E t \in Threads : Call(t)
    \/ Environment

SpecCalls == Init /\ [][NextCalls]_vars

\* Callers of call, and a server that also writes what answers no request.
NextServer ==
    \/ NextCalls
    \/ ServerPush

SpecServer == Init /\ [][NextServer]_vars

\* Initialize, as the Service runs it.
NextInit ==
    \/ \E t \in Threads : StartInitialize(t)
    \/ \E t \in Threads : Call(t) \/ Notify(t) \/ Initialize(t)
    \/ Environment

InitInitialize == InitWith(MaxInits)

SpecInit == InitInitialize /\ [][NextInit]_vars

\* GoToDefinition: one call, which the guard of call lets through on an
\* initialized client only.
StartGoToDefinition(t) == BeginOp(t, "call", "textDocument/definition", "call_lock")

\* Initialize on a new client beside callers of GoToDefinition.
NextHandshake ==
    \/ \E t \in Threads : StartInitialize(t) \/ StartGoToDefinition(t)
    \/ \E t \in Threads : Call(t) \/ Notify(t) \/ Initialize(t)
    \/ Environment

InitHandshake ==
    /\ InitWith(MaxOps)
    /\ ~initialized

SpecHandshake == InitHandshake /\ [][NextHandshake]_vars

\* Close beside callers of call and notify.
NextClose ==
    \/ \E t \in Threads : StartClose(t) \/ StartCall(t) \/ StartNotify(t)
    \/ \E t \in Threads : Call(t) \/ Notify(t) \/ Close(t)
    \/ Environment

SpecClose == Init /\ [][NextClose]_vars

\* The typed operations, started by either goroutine.
NextQueries ==
    \/ \E t \in Threads : StartGetDiagnostics(t) \/ StartGetHover(t) \/ StartGetCompletion(t)
    \/ \E t \in Threads : Call(t) \/ Notify(t) \/ Query(t)
    \/ Environment

InitQueries == InitWith(MaxQueries)

SpecQueries == InitQueries /\ [][NextQueries]_vars

\* gopls.go 473, 543: the call of GetHover or GetCompletion has returned a
\* response and no error.
CallAnswered(t, o) ==
    /\ pc[t] = "idle"
    /\ op' = Set(op, t, o)
    /\ pc' = Set(pc, t, AfterCall(o))
    /\ cerr' = Set(cerr, t, NoErr)
    /\ UNCHANGED <<otherLayers, clientVars, transVars, procVars,
                   method, id, first, attempt, nerr, errs, ret, resp, opsLeft,
                   histVars>>

\* GetHover and GetCompletion on every result a response may carry.
NextDecode ==
    \/ \E t \in Threads : CallAnswered(t, "GetHover") \/ CallAnswered(t, "GetCompletion")
    \/ \E t \in Threads : HoverReturn(t) \/ CompletionReturn(t)

InitDecode ==
    /\ InitWith(0)
    /\ initialized

SpecDecode == InitDecode /\ [][NextDecode]_vars

(***************************************************************************)
(* The framing of the Transport (transport.go), alone on one stream: a     *)
(* writer's SendMessage and a peer that writes frames of its own put bytes *)
(* on the stream, ReceiveMessage takes them off.  The stream is a sequence *)
(* of header lines, each ended by its newline, and of content bytes.       *)
(***************************************************************************)
\* The bytes of the frames of q, one after the other.
RECURSIVE Bytes(_)
Bytes(q) == IF q = <<>> THEN <<>> ELSE Head(q).bytes \o Bytes(Tail(q))

\* The stream holds whole frames, unread: the reader is at a frame's start.
Aligned == stream = Bytes(queue)

FramesWritten == Len(written)

\* transport.go 57-88: SendMessage(m) by the writer at the other end.
SendMessage ==
    /\ FramesWritten < MaxFrames
    /\ ~ended
    /\ \E m \in Messages :
         /\ stream' = stream \o FrameOf(m)
         /\ written' = Append(written, [by |-> "SendMessage", msg |-> m])
         /\ queue' = Append(queue, [kind |-> "good", bytes |-> FrameOf(m)])
    /\ UNCHANGED <<ended, contentLen, received>>
    /\ UNCHANGED <<goplsVars, serviceVars, sendVars, opVars>>

\* A peer that is not this Transport writes a frame.
PeerWrite ==
    /\ FramesWritten < MaxFrames
    /\ ~ended
    /\ \E k \in DOMAIN PeerFrames :
         /\ stream' = stream \o PeerFrames[k]
         /\ written' = Append(written, [by |-> "peer", msg |-> NoMsg])
         /\ queue' = Append(queue, [kind |-> k, bytes |-> PeerFrames[k]])
    /\ UNCHANGED <<ended, contentLen, received>>
    /\ UNCHANGED <<goplsVars, serviceVars, sendVars, opVars>>

\* transport.go 104-170: the reader of a ReceiveMessage reads one frame; it
\* goes on to the next frame after a notification, else ReceiveMessage returns
\* what it found.
ReceiveFrame ==
    /\ Len(received) <= MaxFrames
    /\ ReadFrame(stream, contentLen, ended).kind # "block"
    /\ LET r == ReadFrame(stream, contentLen, ended) IN
         /\ stream' = r.rest
         /\ contentLen' = r.field
         /\ received' =
              IF r.kind = "error" THEN Append(received, Result(NoMsg, r.err))
              ELSE IF ReaderSkips(MessageOf(stream, contentLen)) THEN received
              ELSE Append(received, Result(MessageOf(stream, contentLen), NoErr))
         /\ queue' = IF Aligned /\ queue # <<>> /\ r.rest = Bytes(Tail(queue))
                     THEN Tail(queue)
                     ELSE <<>>
    /\ UNCHANGED <<ended, written>>
    /\ UNCHANGED <<goplsVars, serviceVars, sendVars, opVars>>

\* The frame the writer at the other end is in the middle of when the stream
\* ends: it has written none of it, its length line, its header block, or
\* some of its payload too.
CutFrame(n) == SubSeq(PeerFrames.good, 1, n)

\* The other end closes the stream, at the end of a frame or inside one.
PeerEnd ==
    /\ ~ended
    /\ ended' = TRUE
    /\ \E n \in 0..(Len(PeerFrames.good) - 1) :
         /\ stream' = stream \o CutFrame(n)
         /\ queue' = IF n = 0 THEN queue
                     ELSE Append(queue, [kind |-> "cut", bytes |-> CutFrame(n)])
    /\ written' = Append(written, [by |-> "peer", msg |-> NoMsg])
    /\ UNCHANGED <<contentLen, received>>
    /\ UNCHANGED <<goplsVars, serviceVars, sendVars, opVars>>

NextFraming ==
    \/ SendMessage
    \/ PeerWrite
    \/ PeerEnd
    \/ ReceiveFrame

InitFraming ==
    /\ InitWith(0)
    /\ ~initialized

\* One stream, its writers and its reader.
SpecFraming == InitFraming /\ [][NextFraming]_vars

(***************************************************************************)
(* The writing side of the Transport (transport.go 57-96), a write at a    *)
(* time: SendMessage writes the header, then the payload, then flushes,    *)
(* and each of the three may fail.  Goroutines call SendMessage and        *)
(* ReceiveMessage on the Transport, or call and notify on the GoplsClient  *)
(* that owns it (gopls.go 96-194).                                         *)
(***************************************************************************)
\* The rest of the client, which the steps of this layer leave alone.
clientRest == <<initialized, reading, resultCh, leftover, procVars, threadVars, histVars>>

\* What the writer takes in one write.
Header(m) == [part |-> "header", msg |-> m]

Payload(m) == [part |-> "payload", msg |-> m]

\* transport.go 72, 77, 83: the error of a failed write.
WriteError(part) ==
    Wrap(<<"failed to", part, "transport closed">>, ErrBrokenPipe)

\* The write before the flush fails without closing the Transport.
ClosesOnFlushFailureOnly(part) == part = "flush writer"

\* transport.go 71, 76, 82: t.Close() after a failed write.
ClosesOnFailure(part) == TRUE

\* The error of SendMessage is an input/output failure.
IsWriteFailure(e) == e # NoErr /\ e # ErrTransportClosed

\* The goroutine t goes on as r.
Sender(t, r) == snd' = [snd EXCEPT ![t] = r]

\* Where SendMessage and ReceiveMessage return to.
AfterSend(o) ==
    CASE o = "call" -> "call_sent"
      [] o = "notify" -> "notify_sent"
      [] OTHER -> "idle"

\* A goroutine starts the operation o with message m.
BeginSend(t, o, m, at) ==
    /\ snd[t].pc = "idle"
    /\ sendsLeft > 0
    /\ sendsLeft' = sendsLeft - 1
    /\ Sender(t, [pc |-> at, op |-> o, msg |-> m, err |-> NoErr,
                  late |-> sendFailed, touched |-> FALSE])
    /\ UNCHANGED <<writeMutex, out, sendFailed>>
    /\ UNCHANGED <<clientVars, transVars, clientRest, serviceVars, streamVars, opVars>>

\* The messages given to SendMessage directly.
SentDirectly == {Request(AddInt64(AddInt64(InitialID)), "textDocument/hover"),
                 Notification("textDocument/didOpen")}

StartSendMessage(t) == \E m \in SentDirectly : BeginSend(t, "SendMessage", m, "send_lock")

StartReceiveMessage(t) == BeginSend(t, "ReceiveMessage", NoMsg, "recv_lock")

\* transport.go 58: t.writeMutex.Lock().
SendLock(t) ==
    /\ snd[t].pc = "send_lock"
    /\ writeMutex = Free
    /\ writeMutex' = t
    /\ Sender(t, [snd[t] EXCEPT !.pc = "send_check"])
    /\ UNCHANGED <<out, sendFailed, sendsLeft>>
    /\ UNCHANGED <<clientVars, transVars, clientRest, serviceVars, streamVars, opVars>>

\* SendMessage returns e: the deferred Unlock of line 59.
SendReturns(t, e, wrote) ==
    /\ writeMutex' = Free
    /\ sendFailed' = (sendFailed \/ IsWriteFailure(e))
    /\ Sender(t, [snd[t] EXCEPT !.pc = AfterSend(snd[t].op), !.err = e,
                                !.touched = snd[t].touched \/ wrote])

\* transport.go 61-68: a closed Transport is refused.
SendCheck(t) ==
    /\ snd[t].pc = "send_check"
    /\ writeMutex = t
    /\ IF tClosed
       THEN SendReturns(t, ErrTransportClosed, FALSE)
       ELSE /\ Sender(t, [snd[t] EXCEPT !.pc = "send_header"])
            /\ UNCHANGED <<writeMutex, sendFailed>>
    /\ UNCHANGED <<out, sendsLeft>>
    /\ UNCHANGED <<clientVars, transVars, clientRest, serviceVars, streamVars, opVars>>

\* One write of SendMessage: it succeeds and the writer has taken the
\* bytes, or it fails, the Transport is closed and SendMessage returns.
Write(t, at, part, bytes, next) ==
    /\ snd[t].pc = at
    /\ writeMutex = t
    /\ \E ok \in BOOLEAN :
         IF ok
         THEN /\ out' = out \o bytes
              /\ IF next = "return"
                 THEN SendReturns(t, NoErr, TRUE)
                 ELSE /\ Sender(t, [snd[t] EXCEPT !.pc = next, !.touched = TRUE])
                      /\ UNCHANGED <<writeMutex, sendFailed>>
              /\ UNCHANGED tClosed
         ELSE /\ tClosed' = (tClosed \/ ClosesOnFailure(part))
              /\ SendReturns(t, WriteError(part), TRUE)
              /\ UNCHANGED out
    /\ UNCHANGED sendsLeft
    /\ UNCHANGED <<clientVars, readMutex, reading, resultCh, leftover,
                   clientRest, serviceVars, streamVars, opVars>>

\* transport.go 70-73.
SendHeader(t) ==
    Write(t, "send_header", "write header", <<Header(snd[t].msg)>>, "send_payload")

\* transport.go 75-78.
SendPayload(t) ==
    Write(t, "send_payload", "write content", <<Payload(snd[t].msg)>>, "send_flush")

\* transport.go 80-87.
SendFlush(t) == Write(t, "send_flush", "flush writer", <<>>, "return")

\* Where ReceiveMessage returns to, and with what.
ReceiveReturns(t, e) ==
    /\ Sender(t, [snd[t] EXCEPT !.pc = "idle",
                                !.err = IF snd[t].op = "call" /\ e # NoErr
                                        THEN ReceiveErrorOfCall(e) ELSE e])
    /\ closed' = IF snd[t].op = "call" /\ e # NoErr
                 THEN ClosedAfterReceiveError(e, closed) ELSE closed

\* transport.go 91-104: ReceiveMessage takes the read lock and refuses a
\* closed Transport, else its reader goroutine starts to read.
ReceiveLock(t) ==
    /\ snd[t].pc = "recv_lock"
    /\ readMutex = Free
    /\ IF tClosed
       THEN /\ ReceiveReturns(t, ErrTransportClosed)
            /\ UNCHANGED readMutex
       ELSE /\ readMutex' = t
            /\ Sender(t, [snd[t] EXCEPT !.pc = "recv_wait", !.touched = TRUE])
            /\ UNCHANGED closed
    /\ UNCHANGED <<writeMutex, out, sendFailed, sendsLeft>>
    /\ UNCHANGED <<nextID, initialized, mutex, tClosed, reading, resultCh, leftover,
                   procVars, threadVars, histVars, serviceVars, streamVars, opVars>>

\* transport.go 168-173: a message or the timeout.
ReceiveDone(t) ==
    /\ snd[t].pc = "recv_wait"
    /\ readMutex = t
    /\ readMutex' = Free
    /\ \E e \in {NoErr, ErrReceiveTimeout} : ReceiveReturns(t, e)
    /\ UNCHANGED <<writeMutex, out, sendFailed, sendsLeft>>
    /\ UNCHANGED <<nextID, initialized, mutex, tClosed, reading, resultCh, leftover,
                   procVars, threadVars, histVars, serviceVars, streamVars, opVars>>

\* The steps of SendMessage and of ReceiveMessage.
Transport(t) ==
    \/ SendLock(t)
    \/ SendCheck(t)
    \/ SendHeader(t)
    \/ SendPayload(t)
    \/ SendFlush(t)
    \/ ReceiveLock(t)
    \/ ReceiveDone(t)

NextTransport ==
    \/ \E t \in Threads : StartSendMessage(t) \/ StartReceiveMessage(t)
    \/ \E t \in Threads : Transport(t)

\* The Transport of an initialized client, nothing being written.
InitTransport ==
    /\ InitWith(0)
    /\ initialized

\* One Transport and the goroutines that call it.
SpecTransport == InitTransport /\ [][NextTransport]_vars

\* call and notify write by write (gopls.go 96-194): what their steps leave
\* alone besides the client's fields.
wireRest == <<transVars, procVars, threadVars, histVars, serviceVars, streamVars, opVars>>

\* The methods call and notify are given here.
WireMethod(o) == IF o = "call" THEN "textDocument/definition" ELSE "textDocument/didOpen"

StartWireCall(t) == BeginSend(t, "call", NoMsg, "wire_call_lock")

StartWireNotify(t) ==
    BeginSend(t, "notify", Notification(WireMethod("notify")), "wire_notify_lock")

\* call or notify returns e before it has sent anything.
WireReturns(t, e) == Sender(t, [snd[t] EXCEPT !.pc = "idle", !.err = e])

\* gopls.go 97-109: c.mutex.Lock(), the closed check and the initialized
\* guard.
WireCallLock(t) ==
    /\ snd[t].pc = "wire_call_lock"
    /\ mutex = Free
    /\ IF Load(closed)
       THEN WireReturns(t, ErrClientClosed) /\ UNCHANGED mutex
       ELSE IF ~GuardPasses(WireMethod("call"), initialized)
       THEN WireReturns(t, ErrNotInitialized) /\ UNCHANGED mutex
       ELSE /\ mutex' = t
            /\ Sender(t, [snd[t] EXCEPT !.pc = "wire_call_id"])
    /\ UNCHANGED <<writeMutex, out, sendFailed, sendsLeft>>
    /\ UNCHANGED <<nextID, closed, initialized, wireRest>>

\* The mutex is given up as soon as the identifier is taken.
MutexReleasedAfterID(t) == Free

\* gopls.go 111-126: c.mutex stays locked from the identifier until
\* SendMessage has returned.
MutexAfterID(t) == t

\* gopls.go 111-118: the identifier and the request.
WireCallID(t) ==
    /\ snd[t].pc = "wire_call_id"
    /\ mutex = t
    /\ nextID' = AddInt64(nextID)
    /\ mutex' = MutexAfterID(t)
    /\ Sender(t, [snd[t] EXCEPT !.pc = "send_lock",
                                !.msg = Request(AddInt64(nextID), WireMethod("call"))])
    /\ UNCHANGED <<writeMutex, out, sendFailed, sendsLeft>>
    /\ UNCHANGED <<closed, initialized, wireRest>>

\* gopls.go 120-126: SendMessage has returned to call; a failed send marks
\* the client closed, and the mutex is unlocked either way.  After a send
\* call goes to ReceiveMessage (130).
WireCallSent(t) ==
    /\ snd[t].pc = "call_sent"
    /\ mutex' = Free
    /\ IF snd[t].err # NoErr
       THEN /\ closed' = TRUE
            /\ WireReturns(t, Wrap(<<"failed to send request", "client closed">>, snd[t].err))
       ELSE /\ Sender(t, [snd[t] EXCEPT !.pc = "recv_lock"])
            /\ UNCHANGED closed
    /\ UNCHANGED <<writeMutex, out, sendFailed, sendsLeft>>
    /\ UNCHANGED <<nextID, initialized, wireRest>>

\* gopls.go 177-182: c.mutex.Lock() and the closed check of notify.
WireNotifyLock(t) ==
    /\ snd[t].pc = "wire_notify_lock"
    /\ mutex = Free
    /\ IF Load(closed)
       THEN WireReturns(t, ErrClientClosed) /\ UNCHANGED mutex
       ELSE /\ mutex' = t
            /\ Sender(t, [snd[t] EXCEPT !.pc = "send_lock"])
    /\ UNCHANGED <<writeMutex, out, sendFailed, sendsLeft>>
    /\ UNCHANGED <<nextID, closed, initialized, wireRest>>

\* gopls.go 178, 189-193: SendMessage has returned to notify, and the
\* deferred Unlock runs; the closed flag is left alone.
WireNotifySent(t) ==
    /\ snd[t].pc = "notify_sent"
    /\ mutex' = Free
    /\ WireReturns(t, IF snd[t].err # NoErr
                      THEN Wrap(<<"failed to send notification">>, snd[t].err)
                      ELSE NoErr)
    /\ UNCHANGED <<writeMutex, out, sendFailed, sendsLeft>>
    /\ UNCHANGED <<nextID, closed, initialized, wireRest>>

\* The steps of call and of notify around their SendMessage.
Wire(t) ==
    \/ WireCallLock(t)
    \/ WireCallID(t)
    \/ WireCallSent(t)
    \/ WireNotifyLock(t)
    \/ WireNotifySent(t)

NextWire ==
    \/ \E t \in Threads : StartWireCall(t) \/ StartWireNotify(t)
    \/ \E t \in Threads : Wire(t)
    \/ \E t \in Threads : Transport(t)

InitWire ==
    /\ InitWith(0)
    /\ initialized

\* Goroutines in call and notify on one client, write by write.
SpecWire == InitWire /\ [][NextWire]_vars

(***************************************************************************)
(* The older client, lsp.Client (pkg/lsp/client.go): one mutex over the    *)
(* whole of call, notify and Close, and a call that reads one frame.  Its  *)
(* fields are the client's nextID, closed and mutex, its pipes are wire    *)
(* and inbox.                                                              *)
(***************************************************************************)
\* client.go 76: nextID of a new Client.
LegacyNextID == 1

\* client.go 116, 191.
ErrIsClosed == <<"client is closed">>

\* NewClient has returned the client to its caller: initialize (89-108)
\* ended with the initialized notification written.
LegacyReady == \E i \in DOMAIN wire : wire[i] = Notification("initialized")

\* client.go 51-86: NewClient, from its call of initialize on.
StartNewClient(t) ==
    /\ t = "t1"
    /\ op[t] = "none"
    /\ BeginOp(t, "NewClient", "initialize", "legacy_call_lock")

\* client.go 216-227: GetDefinition, one call.
StartGetDefinition(t) ==
    /\ LegacyReady
    /\ BeginOp(t, "GetDefinition", "textDocument/definition", "legacy_call_lock")

\* client.go 295: Close.
StartLegacyClose(t) ==
    /\ LegacyReady
    /\ BeginOp(t, "LegacyClose", "", "legacy_close_lock")

\* client.go 117, 138, 151-182: call returns the error e, or the result of
\* the message whose id is r, to initialize (101-107), to Close (301-302) or
\* to the caller of GetDefinition; a failed initialize makes NewClient call
\* Close (80-81).
LegacyCallReturns(t, e, r) ==
    /\ cerr' = Set(cerr, t, e)
    /\ resp' = Set(resp, t, r)
    /\ IF method[t] = "initialize"
       THEN /\ pc' = Set(pc, t, IF e = NoErr THEN "legacy_notify_lock" ELSE "legacy_close_lock")
            /\ method' = Set(method, t, IF e = NoErr THEN "initialized" ELSE "")
            /\ UNCHANGED ret
       ELSE IF method[t] = "shutdown"
       THEN /\ pc' = Set(pc, t, "legacy_notify_lock")
            /\ method' = Set(method, t, "exit")
            /\ UNCHANGED ret
       ELSE /\ pc' = Set(pc, t, "idle")
            /\ ret' = Set(ret, t, e)
            /\ UNCHANGED method

\* client.go 112-117: c.mutex.Lock() and the closed check of call.
LegacyCallLock(t) ==
    /\ pc[t] = "legacy_call_lock"
    /\ mutex = Free
    /\ IF closed
       THEN /\ LegacyCallReturns(t, ErrIsClosed, NoID)
            /\ UNCHANGED mutex
       ELSE /\ mutex' = t
            /\ pc' = Set(pc, t, "legacy_call_send")
            /\ UNCHANGED <<cerr, resp, method, ret>>
    /\ UNCHANGED <<otherLayers, nextID, closed, initialized, transVars, procVars,
                   op, id, first, attempt, nerr, errs, opsLeft, histVars>>

\* client.go 119-139: the identifier, then the request is written.
LegacyCallSend(t) ==
    /\ pc[t] = "legacy_call_send"
    /\ mutex = t
    /\ id' = Set(id, t, nextID)
    /\ nextID' = nextID + 1
    /\ IF ~procAlive
       THEN /\ mutex' = Free
            /\ LegacyCallReturns(t, Wrap(<<"failed to send request">>, ErrBrokenPipe), NoID)
            /\ UNCHANGED wire
       ELSE /\ wire' = Append(wire, Request(nextID, method[t]))
            /\ pc' = Set(pc, t, "legacy_call_read")
            /\ UNCHANGED <<mutex, cerr, resp, method, ret>>
    /\ UNCHANGED <<otherLayers, closed, initialized, transVars,
                   procAlive, killCount, inbox, answered, notifs,
                   op, first, attempt, nerr, errs, opsLeft, histVars>>

\* client.go 144-183: call reads the next frame on stdout, whatever it is,
\* and returns its error or its result.
LegacyCallRead(t) ==
    /\ pc[t] = "legacy_call_read"
    /\ mutex = t
    /\ mutex' = Free
    /\ \/ /\ inbox # <<>>
          /\ inbox' = Tail(inbox)
          /\ IF Head(inbox).kind = "error"
             THEN LegacyCallReturns(t, <<"server error">>, NoID)
             ELSE LegacyCallReturns(t, NoErr, Head(inbox).id)
       \/ /\ inbox = <<>>
          /\ ~procAlive
          /\ LegacyCallReturns(t, Wrap(<<"failed to read header">>, ErrEOF), NoID)
          /\ UNCHANGED inbox
    /\ UNCHANGED <<otherLayers, nextID, closed, initialized, transVars,
                   procAlive, killCount, wire, answered, notifs,
                   op, id, first, attempt, nerr, errs, opsLeft, histVars>>

\* client.go 187-192: c.mutex.Lock() and the closed check of notify.
LegacyNotifyLock(t) ==
    /\ pc[t] = "legacy_notify_lock"
    /\ mutex = Free
    /\ IF closed
       THEN /\ nerr' = Set(nerr, t, ErrIsClosed)
            /\ pc' = Set(pc, t, "legacy_notify_send")
            /\ UNCHANGED mutex
       ELSE /\ mutex' = t
            /\ pc' = Set(pc, t, "legacy_notify_send")
            /\ UNCHANGED nerr
    /\ UNCHANGED <<otherLayers, nextID, closed, initialized, transVars, procVars,
                   op, method, id, first, attempt, cerr, errs, ret, resp, opsLeft, histVars>>

\* The error of the write of notify.
LegacyWriteError ==
    IF procAlive THEN NoErr ELSE Wrap(<<"failed to send notification">>, ErrBrokenPipe)

\* client.go 194-213: the notification is written and notify returns: to
\* initialize, whose error makes NewClient call Close (80-85), or to Close,
\* which closes the pipes, kills the subprocess and sets closed (304-317).
LegacyNotifySend(t) ==
    /\ pc[t] = "legacy_notify_send"
    /\ LET e == IF nerr[t] = ErrIsClosed THEN ErrIsClosed ELSE LegacyWriteError IN
         /\ nerr' = Set(nerr, t, e)
         /\ wire' = IF e = NoErr THEN Append(wire, Notification(method[t])) ELSE wire
         /\ IF method[t] = "exit"
            THEN /\ procAlive' = FALSE
                 /\ killCount' = killCount + 1
                 /\ closed' = TRUE
                 /\ pc' = Set(pc, t, "idle")
                 /\ ret' = Set(ret, t, IF op[t] = "NewClient"
                                      THEN Wrap(<<"failed to initialize gopls">>, cerr[t])
                                      ELSE NoErr)
            ELSE /\ pc' = Set(pc, t, IF e = NoErr THEN "idle" ELSE "legacy_close_lock")
                 /\ ret' = Set(ret, t, e)
                 /\ UNCHANGED <<procAlive, killCount, closed>>
    /\ mutex' = Free
    /\ UNCHANGED <<otherLayers, nextID, initialized, transVars, inbox, answered, notifs,
                   op, method, id, first, attempt, cerr, errs, resp, opsLeft, histVars>>

\* client.go 296-302: Close locks c.mutex and, on an open client, calls
\* call("shutdown") with the mutex held.
LegacyCloseLock(t) ==
    /\ pc[t] = "legacy_close_lock"
    /\ mutex = Free
    /\ IF closed
       THEN /\ pc' = Set(pc, t, "idle")
            /\ UNCHANGED <<mutex, method>>
       ELSE /\ mutex' = t
            /\ method' = Set(method, t, "shutdown")
            /\ pc' = Set(pc, t, "legacy_call_lock")
    /\ UNCHANGED <<otherLayers, nextID, closed, initialized, transVars, procVars,
                   op, id, first, attempt, cerr, nerr, errs, ret, resp, opsLeft, histVars>>

Legacy(t) ==
    \/ LegacyCallLock(t)
    \/ LegacyCallSend(t)
    \/ LegacyCallRead(t)
    \/ LegacyNotifyLock(t)
    \/ LegacyNotifySend(t)
    \/ LegacyCloseLock(t)

NextLegacy ==
    \/ \E t \in Threads : StartNewClient(t) \/ StartGetDefinition(t) \/ StartLegacyClose(t)
    \/ \E t \in Threads : Legacy(t)
    \/ ServerRespond
    \/ ServerNotify
    \/ ServerExit

\* The Client as NewClient has built it (72-77), before initialize.
InitLegacy ==
    /\ InitWith(MaxOps)
    /\ ~initialized
    /\ nextID = LegacyNextID

SpecLegacy == InitLegacy /\ [][NextLegacy]_vars

(***************************************************************************)
(* The older MCP server, mcp.Server (pkg/mcp/server.go): ServeStdio        *)
(* decodes a request from stdin, switches on its method and encodes one    *)
(* response on stdout.  received is the sequence of the requests decoded,  *)
(* written that of the responses encoded, lspClient the Server's field.    *)
(* The id of a request is a JSON value; a JSON integer is the record of    *)
(* high and low that stands for high * 2^53 + low.                         *)
(***************************************************************************)
\* Requests ServeStdio decodes in one run.
MaxRequests == 2

\* server.go 26-28: the client NewClient returned.
LegacyClient == 1

JInteger(high, low) == JNumber([high |-> high, low |-> low])

\* What a client may put as the id of a request.
RequestIDs ==
    {JAbsent, JNull, JString("a"), JInteger(0, 0), JInteger(0, 7), JInteger(1, 0), JInteger(1, 1)}

\* The tools a callTool request may name and the shapes of its params:
\* params that are no object, arguments that do not fit the tool, or both
\* well formed.
ToolNames == {"get_definition", "format_code", "no_such_tool"}
ParamShapes == {"invalid", "bad_arguments", "ok"}

McpRequest(i, m, tool, shape) == [id |-> i, method |-> m, tool |-> tool, shape |-> shape]

McpRequests ==
    {McpRequest(i, m, "", "ok") : i \in RequestIDs, m \in {"initialize", "listTools", "ping"}}
    \cup {McpRequest(i, "callTool", tool, shape) :
              i \in RequestIDs, tool \in ToolNames, shape \in ParamShapes}

\* encoding/json, decode.go: a JSON number decoded into an interface{} is a
\* float64, the nearest one, ties to the even mantissa; between 2^53 and
\* 2^54 the float64s are the even integers.
Float64(n) ==
    IF n.high = 0
    THEN n
    ELSE [n EXCEPT !.low = n.low - (n.low % 2) + (IF n.low % 4 = 3 THEN 2 ELSE 0)]

\* server.go 38-45: request.ID after decoder.Decode: nil for an absent or
\* null id, a float64 for a number, the string for a string.
DecodeID(j) ==
    IF j.t \in {"absent", "null"} THEN JNull
    ELSE IF j.t = "number" THEN JNumber(Float64(j.s))
    ELSE j

\* server.go 342-357: createErrorResponse.
CreateErrorResponse(i, code) ==
    [id |-> IF i = JNull THEN JInteger(0, 0) ELSE i, kind |-> "error", code |-> code]

\* server.go 62-73, 201-207, 312-319: a response with a result.
ResultResponse(i) == [id |-> i, kind |-> "result", code |-> 0]

\* server.go 482-487, 548-557: what the handler of a tool returns, an error
\* or none: get_definition fails without a client and may fail with one.
HandlerErrors(tool) ==
    IF tool = "get_definition"
    THEN IF lspClient = NoClient THEN {<<"LSP client not initialized">>}
         ELSE {NoErr, <<"server error">>}
    ELSE {NoErr}

\* server.go 209-319: case "callTool".
CallToolResponses(r, i) ==
    IF r.shape = "invalid" THEN {CreateErrorResponse(i, -32602)}
    ELSE IF r.tool \notin {"get_definition", "format_code"} THEN {CreateErrorResponse(i, -32601)}
    ELSE IF r.shape = "bad_arguments" THEN {CreateErrorResponse(i, -32602)}
    ELSE {IF e # NoErr THEN CreateErrorResponse(i, -32000) ELSE ResultResponse(i) :
             e \in HandlerErrors(r.tool)}

\* server.go 60-324: the switch on request.Method.
Responses(r) ==
    LET i == DecodeID(r.id) IN
      IF r.method \in {"initialize", "listTools"} THEN {ResultResponse(i)}
      ELSE IF r.method = "callTool" THEN CallToolResponses(r, i)
      ELSE {CreateErrorResponse(i, -32601)}

\* server.go 326-332: the id of a response is never left nil.
NeverNull(w) == IF w.id = JNull THEN [w EXCEPT !.id = JInteger(0, 0)] ELSE w

\* server.go 18-29: NewServer, with the client of NewClient or without.
NewServer ==
    /\ op["t1"] = "none"
    /\ op' = Set(op, "t1", "NewServer")
    /\ lspClient' \in {NoClient, LegacyClient}
    /\ UNCHANGED <<clientVars, transVars, procVars, histVars, streamVars, sendVars, opVars,
                   pc, method, id, first, attempt, cerr, nerr, errs, ret, resp, opsLeft,
                   clientMutex, clients, svc, toolsLeft, serviceUp>>

\* What the steps of ServeStdio leave alone.
mcpRest ==
    <<clientVars, transVars, procVars, histVars, serviceVars, sendVars, opVars,
      method, id, first, attempt, cerr, nerr, errs, resp, opsLeft,
      stream, ended, contentLen, queue>>

\* server.go 32-34: ServeStdio begins.
StartServeStdio ==
    /\ op["t1"] = "NewServer"
    /\ op' = Set(op, "t1", "ServeStdio")
    /\ pc' = Set(pc, "t1", "mcp_decode")
    /\ UNCHANGED <<mcpRest, ret, received, written>>

\* server.go 38-54: decoder.Decode gives the next request, or ends the loop
\* at the end of stdin or on what is no request.
McpDecode ==
    /\ pc["t1"] = "mcp_decode"
    /\ \/ /\ Len(received) < MaxRequests
          /\ \E r \in McpRequests : received' = Append(received, r)
          /\ pc' = Set(pc, "t1", "mcp_respond")
          /\ UNCHANGED ret
       \/ /\ \E e \in {NoErr, <<"invalid character">>} : ret' = Set(ret, "t1", e)
          /\ pc' = Set(pc, "t1", "idle")
          /\ UNCHANGED received
    /\ UNCHANGED <<mcpRest, op, written>>

\* server.go 56-339: the response to the request decoded last is built and
\* encoded on stdout; a failed write ends the loop.
McpRespond ==
    /\ pc["t1"] = "mcp_respond"
    /\ \/ /\ \E w \in Responses(received[Len(received)]) :
                written' = Append(written, NeverNull(w))
          /\ pc' = Set(pc, "t1", "mcp_decode")
          /\ UNCHANGED ret
       \/ /\ ret' = Set(ret, "t1", ErrBrokenPipe)
          /\ pc' = Set(pc, "t1", "idle")
          /\ UNCHANGED written
    /\ UNCHANGED <<mcpRest, op, received>>

NextMcp ==
    \/ NewServer
    \/ StartServeStdio
    \/ McpDecode
    \/ McpRespond

InitMcp ==
    /\ InitWith(0)
    /\ ~initialized

SpecMcp == InitMcp /\ [][NextMcp]_vars

(***************************************************************************)
(* The Service (pkg/server/server.go) and the tool handlers that use it    *)
(* (pkg/tools/lsp_tools.go).  The Service spawns, replaces and closes      *)
(* whole clients, so at this layer a client is the pair of its flags and   *)
(* each of its operations is one step, with the outcomes the operation has *)
(* in the layer below.                                                     *)
(***************************************************************************)
\* A client as NewGoplsClient returns it, its subprocess running; closes
\* counts the invocations of Close.
FreshClient == [initialized |-> FALSE, closed |-> FALSE, closes |-> 0, alive |-> TRUE]

\* gopls.go 29-32, 64-68: NewGoplsClient fails.
ErrNoGopls == <<"gopls is not installed or not in PATH">>

\* GoplsClient.Close on the client cl.
CloseOf(cl) ==
    IF CompareAndSwap(cl.closed)
    THEN [initialized |-> FALSE, closed |-> TRUE, closes |-> cl.closes + 1,
          alive |-> FALSE]
    ELSE [cl EXCEPT !.closes = @ + 1]

\* The ways one Initialize on an open client that is not initialized ends:
\* answered; three timeouts; a failed receive, the subprocess having exited;
\* a frame that does not decode, from a subprocess that runs on; an error
\* response; the initialized notification not sent.
InitializeOutcomes == {"ok", "timeout", "io", "garbled", "refused", "notify"}

\* GoplsClient.Initialize on the client cl: the client afterwards and the error.
InitializeOf(cl, o) ==
    IF cl.initialized THEN [client |-> cl, err |-> NoErr]
    ELSE IF cl.closed
    THEN [client |-> cl, err |-> <<"cannot initialize", "client closed">>]
    ELSE CASE o = "ok" ->
                [client |-> [cl EXCEPT !.initialized = TRUE], err |-> NoErr]
           [] o = "timeout" ->
                [client |-> cl,
                 err |-> Wrap(<<"failed to initialize after 3 attempts">>,
                              ReceiveErrorOfCall(ErrReceiveTimeout))]
           [] o = "io" ->
                [client |-> [cl EXCEPT !.closed = TRUE, !.alive = FALSE],
                 err |-> Wrap(<<"failed to initialize (attempt n)">>,
                              ReceiveErrorOfCall(HeaderError(ReadHeaderEOF)))]
           [] o = "garbled" ->
                [client |-> [cl EXCEPT !.closed = TRUE],
                 err |-> Wrap(<<"failed to initialize (attempt n)">>,
                              ReceiveErrorOfCall(ErrDeserialize))]
           [] o = "refused" ->
                [client |-> cl,
                 err |-> Wrap(<<"failed to initialize (attempt n)">>,
                              LSPError("internal error"))]
           [] OTHER ->
                [client |-> cl,
                 err |-> Wrap(<<"failed to send notification 'initialized'">>,
                              Wrap(<<"failed to send notification">>, ErrBrokenPipe))]

\* The ways a call on an open, initialized client ends: answered; a timeout;
\* a failed send, the subprocess having exited; a frame that does not decode,
\* from a subprocess that runs on; an error response.
UseOutcomes == {"ok", "timeout", "io", "garbled", "refused"}

\* A method of the client that is one call (GoToDefinition and the like) on
\* the client cl: the client afterwards and the error.
UseOf(cl, o) ==
    IF Load(cl.closed) THEN [client |-> cl, err |-> ErrClientClosed]
    ELSE IF ~GuardPasses("textDocument/definition", cl.initialized)
    THEN [client |-> cl, err |-> ErrNotInitialized]
    ELSE CASE o = "ok" -> [client |-> cl, err |-> NoErr]
           [] o = "timeout" ->
                [client |-> cl, err |-> ReceiveErrorOfCall(ErrReceiveTimeout)]
           [] o = "io" ->
                [client |-> [cl EXCEPT !.closed = TRUE, !.alive = FALSE],
                 err |-> Wrap(<<"failed to send request", "client closed">>,
                              Wrap(<<"failed to flush writer", "transport closed">>,
                                   ErrBrokenPipe))]
           [] o = "garbled" ->
                [client |-> [cl EXCEPT !.closed = TRUE],
                 err |-> ReceiveErrorOfCall(ErrDeserialize)]
           [] OTHER -> [client |-> cl, err |-> LSPError("internal error")]

\* Goroutine t of the Service moves to pc with the fields of r changed.
Goto(t, r, at) == svc' = [svc EXCEPT ![t] = [r EXCEPT !.pc = at]]

\* Every goroutine takes the lock, whoever holds it.
TryLockAlways(m) == TRUE

\* sync.Mutex.Lock returns once nobody holds the mutex.
TryLock(m) == m = Free

\* The goroutine of t is inside initLSPClient, past its Lock.
InsideInit(t) ==
    svc[t].pc \in {"init_close", "init_spawn", "init_try", "init_fail",
                   "init_publish", "init_unlock"}

\* server.go 24-40: NewService builds the Service and calls initLSPClient.
NewService(t) ==
    /\ t = "t1"
    /\ svc[t].pc = "idle"
    /\ ~serviceUp
    /\ lspClient = NoClient /\ clients = <<>>
    /\ Goto(t, [IdleGoroutine EXCEPT !.caller = "NewService"], "init_lock")
    /\ UNCHANGED <<clientMutex, lspClient, clients, toolsLeft, serviceUp>>
    /\ UNCHANGED <<goplsVars, streamVars, sendVars, opVars>>

\* server.go 56: s.clientMutex.Lock().
InitLock(t) ==
    /\ svc[t].pc = "init_lock"
    /\ TryLock(clientMutex)
    /\ clientMutex' = t
    /\ Goto(t, svc[t], "init_close")
    /\ UNCHANGED <<lspClient, clients, toolsLeft, serviceUp>>
    /\ UNCHANGED <<goplsVars, streamVars, sendVars, opVars>>

\* The existing client is left as it is.
ClosesOldNever(c) == FALSE

\* server.go 59: an existing client is closed first.
ClosesOld(c) == c # NoClient

\* server.go 59-63.
InitCloseOld(t) ==
    /\ svc[t].pc = "init_close"
    /\ IF ClosesOld(lspClient)
       THEN /\ clients' = [clients EXCEPT ![lspClient] = CloseOf(@)]
            /\ lspClient' = NoClient
       ELSE UNCHANGED <<clients, lspClient>>
    /\ Goto(t, [svc[t] EXCEPT !.old = lspClient], "init_spawn")
    /\ UNCHANGED <<clientMutex, toolsLeft, serviceUp>>
    /\ UNCHANGED <<goplsVars, streamVars, sendVars, opVars>>

\* server.go 65-70: NewGoplsClient, which may fail.
InitSpawn(t) ==
    /\ svc[t].pc = "init_spawn"
    /\ \/ /\ clients' = Append(clients, FreshClient)
          /\ Goto(t, [svc[t] EXCEPT !.new = Len(clients) + 1, !.retries = 0,
                                    !.initErr = NoErr], "init_try")
       \/ /\ Goto(t, [svc[t] EXCEPT !.initRet =
                         Wrap(<<"failed to create LSP client">>, ErrNoGopls)],
                  "init_unlock")
          /\ UNCHANGED clients
    /\ UNCHANGED <<clientMutex, lspClient, toolsLeft, serviceUp>>
    /\ UNCHANGED <<goplsVars, streamVars, sendVars, opVars>>

\* server.go 73-85: one round of the retry loop, and what follows the loop.
InitTry(t) ==
    /\ svc[t].pc = "init_try"
    /\ \E o \in InitializeOutcomes :
         LET r == InitializeOf(clients[svc[t].new], o) IN
           /\ clients' = [clients EXCEPT ![svc[t].new] = r.client]
           /\ IF r.err = NoErr
              THEN Goto(t, [svc[t] EXCEPT !.initErr = NoErr], "init_publish")
              ELSE IF svc[t].retries + 1 < MaxAttempts
              THEN Goto(t, [svc[t] EXCEPT !.initErr = r.err, !.retries = @ + 1],
                        "init_try")
              ELSE Goto(t, [svc[t] EXCEPT !.initErr = r.err, !.retries = @ + 1],
                        "init_fail")
    /\ UNCHANGED <<clientMutex, lspClient, toolsLeft, serviceUp>>
    /\ UNCHANGED <<goplsVars, streamVars, sendVars, opVars>>

\* server.go 82-85: the new client is closed and the error returned.
InitFail(t) ==
    /\ svc[t].pc = "init_fail"
    /\ clients' = [clients EXCEPT ![svc[t].new] = CloseOf(@)]
    /\ Goto(t, [svc[t] EXCEPT !.initRet =
                   Wrap(<<"failed to initialize LSP client after multiple attempts">>,
                        svc[t].initErr)],
            "init_unlock")
    /\ UNCHANGED <<clientMutex, lspClient, toolsLeft, serviceUp>>
    /\ UNCHANGED <<goplsVars, streamVars, sendVars, opVars>>

\* server.go 87-89: the new client becomes the current one.
InitPublish(t) ==
    /\ svc[t].pc = "init_publish"
    /\ lspClient' = svc[t].new
    /\ Goto(t, [svc[t] EXCEPT !.initRet = NoErr], "init_unlock")
    /\ UNCHANGED <<clientMutex, clients, toolsLeft, serviceUp>>
    /\ UNCHANGED <<goplsVars, streamVars, sendVars, opVars>>

\* server.go 57: the deferred Unlock, and the return to the caller: NewService
\* (40-52) or resetLSPClientIfNeeded (95-101).
InitReturn(t) ==
    /\ svc[t].pc = "init_unlock"
    /\ clientMutex' = IF clientMutex = t THEN Free ELSE clientMutex
    /\ IF svc[t].caller = "NewService"
       THEN /\ serviceUp' = (svc[t].initRet = NoErr)
            /\ Goto(t, svc[t], "idle")
       ELSE /\ UNCHANGED serviceUp
            /\ Goto(t, [svc[t] EXCEPT !.reset = (svc[t].initRet = NoErr)], "idle")
    /\ UNCHANGED <<lspClient, clients, toolsLeft>>
    /\ UNCHANGED <<goplsVars, streamVars, sendVars, opVars>>

\* The MCP server dispatches a tool invocation to a goroutine.
StartTool(t) ==
    /\ svc[t].pc = "idle"
    /\ serviceUp
    /\ toolsLeft > 0
    /\ toolsLeft' = toolsLeft - 1
    /\ Goto(t, [IdleGoroutine EXCEPT !.caller = "tool"], "get")
    /\ UNCHANGED <<clientMutex, lspClient, clients, serviceUp>>
    /\ UNCHANGED <<goplsVars, streamVars, sendVars, opVars>>

\* server.go 106-110 and lsp_tools.go 130-133: GetLSPClient under the lock; a
\* handler that gets no client returns.
GetLSPClient(t) ==
    /\ svc[t].pc = "get"
    /\ TryLock(clientMutex)
    /\ IF lspClient = NoClient
       THEN Goto(t, [svc[t] EXCEPT !.err = <<"LSP client not available">>], "idle")
       ELSE Goto(t, [svc[t] EXCEPT !.held = lspClient], "use")
    /\ UNCHANGED <<clientMutex, lspClient, clients, toolsLeft, serviceUp>>
    /\ UNCHANGED <<goplsVars, streamVars, sendVars, opVars>>

\* lsp_tools.go 135-138: the handler's operation on the client it holds.
UseClient(t) ==
    /\ svc[t].pc = "use"
    /\ \E o \in UseOutcomes :
         LET r == UseOf(clients[svc[t].held], o) IN
           /\ clients' = [clients EXCEPT ![svc[t].held] = r.client]
           /\ Goto(t, [svc[t] EXCEPT !.err = r.err],
                   IF r.err = NoErr THEN "idle" ELSE "reset")
    /\ UNCHANGED <<clientMutex, lspClient, toolsLeft, serviceUp>>
    /\ UNCHANGED <<goplsVars, streamVars, sendVars, opVars>>

\* Every error asks for a new client.
NeedsResetOnAnyError(err) == err # NoErr

\* server.go 93: the error tells of a closed client.
NeedsReset(err) == err # NoErr /\ Contains(err, "client closed")

\* lsp_tools.go 47-51 and server.go 92-103: resetLSPClientIfNeeded(err), up to
\* its call of initLSPClient.
ResetIfNeeded(t) ==
    /\ svc[t].pc = "reset"
    /\ IF NeedsReset(svc[t].err)
       THEN Goto(t, [svc[t] EXCEPT !.caller = "reset", !.tried = TRUE], "init_lock")
       ELSE Goto(t, [svc[t] EXCEPT !.reset = FALSE], "idle")
    /\ UNCHANGED <<clientMutex, lspClient, clients, toolsLeft, serviceUp>>
    /\ UNCHANGED <<goplsVars, streamVars, sendVars, opVars>>

\* server.go 114 and lsp_tools.go 22-28: RegisterTools builds the tools with
\* the client the Service has then, the first it published, and t.client
\* is never assigned again.
RegisteredClient == 1

\* The MCP server dispatches a check_diagnostics invocation to a goroutine.
StartCheckDiagnostics(t) ==
    /\ svc[t].pc = "idle"
    /\ serviceUp
    /\ toolsLeft > 0
    /\ toolsLeft' = toolsLeft - 1
    /\ Goto(t, [IdleGoroutine EXCEPT !.caller = "check_diagnostics"], "captured")
    /\ UNCHANGED <<clientMutex, lspClient, clients, serviceUp>>
    /\ UNCHANGED <<goplsVars, streamVars, sendVars, opVars>>

\* lsp_tools.go 229-233: check_diagnostics takes t.client, not getClient().
TakeRegistered(t) ==
    /\ svc[t].pc = "captured"
    /\ Goto(t, [svc[t] EXCEPT !.held = RegisteredClient], "diagnose")
    /\ UNCHANGED <<clientMutex, lspClient, clients, toolsLeft, serviceUp>>
    /\ UNCHANGED <<goplsVars, streamVars, sendVars, opVars>>

\* GetDiagnostics on the client cl (gopls.go 397-403, 176-194): its notify
\* is refused by a closed client, or is sent, or fails in the write, which
\* leaves the closed flag alone.
DiagnoseOutcomes == {"ok", "io"}

DiagnoseOf(cl, o) ==
    IF Load(cl.closed)
    THEN [client |-> cl, err |-> Wrap(<<"failed to open document">>, ErrClientClosed)]
    ELSE IF o = "ok" THEN [client |-> cl, err |-> NoErr]
    ELSE [client |-> [cl EXCEPT !.alive = FALSE],
          err |-> Wrap(<<"failed to open document", "failed to send notification">>,
                       Wrap(<<"failed to flush writer", "transport closed">>, ErrBrokenPipe))]

\* lsp_tools.go 233-246: GetDiagnostics on t.client; its error is returned
\* without handleLSPError.
Diagnose(t) ==
    /\ svc[t].pc = "diagnose"
    /\ \E o \in DiagnoseOutcomes :
         LET r == DiagnoseOf(clients[svc[t].held], o) IN
           /\ clients' = [clients EXCEPT ![svc[t].held] = r.client]
           /\ Goto(t, [svc[t] EXCEPT !.err = r.err], "idle")
    /\ UNCHANGED <<clientMutex, lspClient, toolsLeft, serviceUp>>
    /\ UNCHANGED <<goplsVars, streamVars, sendVars, opVars>>

InitLSPClient(t) ==
    \/ InitLock(t)
    \/ InitCloseOld(t)
    \/ InitSpawn(t)
    \/ InitTry(t)
    \/ InitFail(t)
    \/ InitPublish(t)
    \/ InitReturn(t)

Tool(t) ==
    \/ StartTool(t)
    \/ GetLSPClient(t)
    \/ UseClient(t)
    \/ ResetIfNeeded(t)
    \/ StartCheckDiagnostics(t)
    \/ TakeRegistered(t)
    \/ Diagnose(t)

NextService ==
    \/ \E t \in Threads : NewService(t)
    \/ \E t \in Threads : InitLSPClient(t)
    \/ \E t \in Threads : Tool(t)

\* The Service from its construction on; the clients appear by their flags.
InitService ==
    /\ InitWith(0)
    /\ ~initialized

SpecService == InitService /\ [][NextService]_vars

(***************************************************************************)
(* Properties.                                                             *)
(***************************************************************************)
\* Thread t has run operation o to its return.
Done(t, o) == op[t] = o /\ pc[t] = "idle"

\* Thread t has written the request of a call and the call has not returned.
InFlight(t) == pc[t] \in {"call_recv", "call_wait"}

\* The call of thread t returned the response to its own request (a result,
\* or the server's error).
GotOwnResponse(t) ==
    \/ ret[t] = NoErr /\ resp[t] = id[t]
    \/ Contains(ret[t], "LSP error")

\* The call of thread t returns in this step, for want of a response.
TimesOut(t) ==
    \/ pc[t] = "call_wait" /\ pc'[t] # "call_wait" /\ Contains(cerr'[t], "timeout")
    \/ pc[t] = "call_recv" /\ pc'[t] # "call_recv" /\ cerr'[t] = ErrNoMatch

\* The call of thread t is refused in this step as made on a closed client.
RefusedAsClosed(t) ==
    pc[t] = "call_lock" /\ pc'[t] # "call_lock" /\ cerr'[t] = ErrClientClosed

Unread(i) ==
    \/ \E k \in DOMAIN inbox : inbox[k].id = i
    \/ resultCh.err = NoErr /\ resultCh.msg.id = i

\* C2, as claimed: of two callers of call on one client, neither of which the
\* server left without an answer, each returns the response bearing its own
\* identifier: a call whose response the server had written, and which is no
\* longer waiting to be read, has returned that response.
C2_EachCallGetsOwnResponse ==
    \A t, u \in Threads :
        (/\ t # u
         /\ Done(t, "call") /\ ans[t] /\ ~Unread(id[t])
         /\ op[u] = "call" /\ ~Contains(ret[u], "timeout"))
            => GotOwnResponse(t)

\* C3, as claimed: at most one call is in flight (request written, not yet
\* returned) at any instant.
C3_OneCallInFlight == Cardinality({t \in Threads : InFlight(t)}) <= 1

\* C4, as claimed: a Close that ran on an initialized client has written the
\* shutdown request and then the exit notification before it killed the
\* subprocess.
C4_CloseSendsShutdownExitThenKills ==
    \A t \in Threads :
        (Done(t, "Close") /\ wasInit[t]) =>
            /\ steps[t] = <<"shutdown", "exit", "kill">>
            /\ \E i \in 1..nextID :
                   sent[t] = <<Request(i, "shutdown"), Notification("exit")>>

\* C5, as claimed: once Close has returned (and no other Close is running),
\* the kill of the subprocess has been issued.
C5_CloseAlwaysKills ==
    \A t \in Threads :
        (Done(t, "Close") /\ \A u \in Threads \ {t} : op[u] # "Close")
            => killCount >= 1

\* Thread t is running, or has run, the body of Close (past the CompareAndSwap).
EnteredClose(t) ==
    /\ op[t] = "Close"
    /\ \/ pc[t] \notin {"close_cas", "idle"}
       \/ pc[t] = "idle" /\ steps[t] # <<>>

\* C6: of the invocations of Close on one client at most one runs the body,
\* the subprocess is killed at most once, exactly once when the body has run
\* to its end, and an invocation that did not run the body returned nil and
\* wrote nothing.
C6_CloseBodyRunsOnce ==
    /\ Cardinality({t \in Threads : EnteredClose(t)}) <= 1
    /\ killCount <= 1
    /\ \A t \in Threads :
          /\ (Done(t, "Close") /\ EnteredClose(t)) => killCount = 1
          /\ (Done(t, "Close") /\ ~EnteredClose(t)) =>
                 ret[t] = NoErr /\ sent[t] = <<>> /\ steps[t] = <<>>

\* Two invocations of Close overlap: one is about to kill, the other has
\* returned nil without acting.
C6_Witness ==
    \E t, u \in Threads :
        /\ t # u
        /\ op[t] = "Close" /\ pc[t] = "close_kill"
        /\ Done(u, "Close") /\ ret[u] = NoErr /\ steps[u] = <<>>

\* C7: a Close that ran its body on an initialized client has attempted the
\* shutdown, the exit and the kill, in this order, whatever failed, and the
\* error it returns holds the error of every step that failed.
C7_CloseCollectsErrors ==
    \A t \in Threads :
        (Done(t, "Close") /\ wasInit[t]) =>
            /\ steps[t] = <<"shutdown", "exit", "kill">>
            /\ cerr[t] # NoErr =>
                   /\ Contains(ret[t], "errors during close")
                   /\ Contains(ret[t], "error during shutdown")
            /\ nerr[t] # NoErr =>
                   /\ Contains(ret[t], "errors during close")
                   /\ Contains(ret[t], "error sending exit notification")
            /\ (ret[t] = NoErr) = (errs[t] = <<>>)

\* Close has returned after its shutdown step and its exit step both failed.
C7_Witness ==
    \E t \in Threads :
        /\ Done(t, "Close") /\ wasInit[t]
        /\ cerr[t] # NoErr /\ nerr[t] # NoErr
        /\ killCount = 1

\* C8: on an open client whose handshake has not completed, a call of a method
\* other than initialize and shutdown returns 'client not initialized' at the
\* guard, allocates no identifier, writes nothing and leaves the closed flag.
C8_GuardBeforeHandshake ==
    [][\A t \in Threads :
          (/\ pc[t] = "call_guard" /\ pc'[t] # "call_guard"
           /\ ~closed /\ ~initialized
           /\ method[t] \notin {"initialize", "shutdown"})
          => /\ cerr'[t] = ErrNotInitialized
             /\ pc'[t] = AfterCall(op[t])
             /\ wire' = wire /\ sent' = sent
             /\ nextID' = nextID
             /\ closed' = closed]_vars

\* A call was refused at the guard, on a client still open.
C8_Witness ==
    \E t \in Threads :
        /\ Done(t, "call") /\ ret[t] = ErrNotInitialized
        /\ method[t] = "textDocument/definition"
        /\ ~closed /\ ~initialized /\ wire = <<>>

\* C9: the identifiers call allocates on one client are strictly increasing
\* in the order of their allocation, hence never reused, and all are above
\* the initial counter value; calls in progress hold different identifiers.
C9_IdentifiersIncrease ==
    /\ \A i \in DOMAIN allocated : allocated[i] > InitialID
    /\ \A i, j \in DOMAIN allocated : i < j => allocated[i] < allocated[j]
    /\ \A t, u \in Threads :
          (t # u /\ id[t] # NoID /\ id[u] # NoID) => id[t] # id[u]

\* Two calls are in progress at once, with their two identifiers.
C9_Witness ==
    \E t, u \in Threads :
        /\ pc[t] = "call_send" /\ pc[u] = "call_wait"
        /\ id[u] > InitialID /\ id[t] > id[u]

\* C10, as claimed: an Initialize whose first two attempts timed out and whose
\* third attempt the server had answered when it returned has returned nil with
\* the client initialized (unless that answer was an error, or the initialized
\* notification could not be sent).
C10_ThirdAttemptSucceeds ==
    \A t \in Threads :
        (Done(t, "Initialize") /\ attempt[t] = MaxAttempts /\ ans[t]) =>
            \/ ret[t] = NoErr /\ initialized
            \/ Contains(ret[t], "LSP error")
            \/ Contains(ret[t], "failed to send notification 'initialized'")

\* The initialize requests thread t has written in its running operation.
InitializeRequests(t) ==
    {k \in DOMAIN sent[t] : sent[t][k].kind = "request" /\ sent[t][k].method = "initialize"}

\* The attempt failed for want of a matching response in time.
FailedByTimeout(err) ==
    \/ err = ReceiveErrorOfCall(ErrReceiveTimeout)
    \/ err = ErrNoMatch

\* C11, as claimed: one Initialize writes at most 3 initialize requests; it
\* goes on to a further attempt only after an attempt that timed out, with
\* attempts remaining; an attempt that failed otherwise ends Initialize with
\* an error.
C11_RetryOnlyAfterTimeout ==
    [][\A t \in Threads :
          /\ Cardinality(InitializeRequests(t))' <= MaxAttempts
          /\ (pc[t] = "init_ret" /\ pc'[t] = "call_lock") =>
                 (FailedByTimeout(cerr[t]) /\ attempt[t] < MaxAttempts)
          /\ (pc[t] = "init_ret" /\ cerr[t] # NoErr /\ ~FailedByTimeout(cerr[t])) =>
                 (pc'[t] = "idle" /\ ret'[t] # NoErr)]_vars

\* C12: an Initialize that returns after its initialize request was answered
\* with a result has attempted the initialized notification; when that was
\* sent it returns nil, the client initialized and open, the notification the
\* last message it wrote; when it could not be sent it returns the error of
\* the notification and the client is not initialized.  Initialize returns
\* nil only on an initialized client.
C12_InitializedNotification ==
    \A t \in Threads :
        Done(t, "Initialize") =>
            /\ (id[t] # NoID /\ cerr[t] = NoErr /\ nerr[t] = NoErr) =>
                   /\ ret[t] = NoErr /\ initialized /\ ~closed
                   /\ sent[t] # <<>>
                   /\ sent[t][Len(sent[t])] = Notification("initialized")
            /\ (id[t] # NoID /\ cerr[t] = NoErr /\ nerr[t] # NoErr) =>
                   /\ Contains(ret[t], "failed to send notification 'initialized'")
                   /\ ~initialized
                   /\ \A k \in DOMAIN sent[t] : sent[t][k] # Notification("initialized")
            /\ ret[t] = NoErr => initialized
            /\ (id[t] # NoID /\ cerr[t] # NoErr) => (ret[t] # NoErr /\ ~initialized)

\* Initialize has returned after a successful initialize response whose
\* initialized notification could not be sent.
C12_Witness ==
    \E t \in Threads :
        /\ Done(t, "Initialize")
        /\ id[t] # NoID /\ cerr[t] = NoErr /\ nerr[t] # NoErr
        /\ ~initialized

\* C13: the closed flag, once set, stays set; on a closed client a call and a
\* notify return 'client closed' at their closed check, with no identifier
\* allocated and nothing written, and Close returns nil having done nothing.
C13_ClosedIsTerminal ==
    [][/\ closed => closed'
       /\ \A t \in Threads :
            /\ (closed /\ pc[t] = "call_lock" /\ pc'[t] # "call_lock") =>
                   /\ cerr'[t] = ErrClientClosed
                   /\ pc'[t] = AfterCall(op[t])
                   /\ wire' = wire /\ sent' = sent /\ nextID' = nextID
            /\ (closed /\ pc[t] = "notify_lock" /\ pc'[t] # "notify_lock") =>
                   /\ nerr'[t] = ErrClientClosed
                   /\ pc'[t] = AfterNotify(op[t])
                   /\ wire' = wire /\ sent' = sent
            /\ (closed /\ pc[t] = "close_cas" /\ pc'[t] # "close_cas") =>
                   /\ pc'[t] = "idle" /\ ret'[t] = NoErr
                   /\ wire' = wire /\ steps' = steps
                   /\ killCount' = killCount /\ procAlive' = procAlive]_vars

\* After a Close that ran to its end, a notify was refused as made on a
\* closed client.
C13_Witness ==
    \E t, u \in Threads :
        /\ Done(t, "Close") /\ killCount = 1
        /\ Done(u, "notify") /\ ret[u] = ErrClientClosed
        /\ closed

\* C14, as claimed: a notify that returns the error of a failed write has
\* left the client marked closed, as a call does.
C14_IOFailureMarksClosed ==
    \A t \in Threads :
        /\ (Done(t, "notify") /\ Contains(ret[t], "failed to send notification")) => closed
        /\ (Done(t, "call") /\ Contains(ret[t], "failed to send request")) => closed
        /\ (Done(t, "call") /\ Contains(ret[t], "failed to receive response")) => closed

\* C15: at most one goroutine is inside initLSPClient past its Lock, and it
\* holds the Service's lock, so no two callers spawn at the same time; and
\* GetLSPClient reads the current client only while no goroutine is inside
\* initLSPClient, never between the removal of the old client and the
\* publication of the new one.
C15_ReinitIsExclusive ==
    /\ [](/\ Cardinality({t \in Threads : InsideInit(t)}) <= 1
          /\ \A t \in Threads : InsideInit(t) => clientMutex = t)
    /\ [][\A t \in Threads :
            (svc[t].pc = "get" /\ svc'[t].pc # "get") =>
                /\ \A u \in Threads : ~InsideInit(u)
                /\ svc'[t].held = lspClient]_vars

\* One goroutine replaces the client while the other waits for the lock to
\* replace it too.
C15_Witness ==
    \E t, u \in Threads :
        /\ svc[t].pc = "init_try" /\ svc[t].caller = "reset"
        /\ svc[u].pc = "init_lock" /\ svc[u].caller = "reset"

\* C16: resetLSPClientIfNeeded(err), called with an error, goes on to
\* initLSPClient exactly when the message of err contains 'client closed';
\* otherwise it returns false with the current client and every client as
\* they were; when it did call initLSPClient it returns true exactly when
\* that returned nil.
C16_ResetOnClosedClientOnly ==
    [][\A t \in Threads :
          /\ (svc[t].pc = "reset" /\ svc'[t].pc # "reset") =>
                 /\ (svc'[t].pc = "init_lock") <=>
                        (svc[t].err # NoErr /\ Contains(svc[t].err, "client closed"))
                 /\ (svc'[t].pc # "init_lock") =>
                        /\ svc'[t].pc = "idle" /\ ~svc'[t].reset /\ ~svc'[t].tried
                        /\ lspClient' = lspClient /\ clients' = clients
          /\ (svc[t].caller = "reset" /\ svc[t].pc = "init_unlock"
                 /\ svc'[t].pc # "init_unlock") =>
                 /\ svc'[t].pc = "idle"
                 /\ svc'[t].reset = (svc[t].initRet = NoErr)
                 /\ svc'[t].reset => lspClient = svc[t].new]_vars

\* One handler's error brought a new client and true; the other's, a timeout,
\* brought false and no attempt.
C16_Witness ==
    \E t, u \in Threads :
        /\ svc[t].pc = "idle" /\ svc[t].tried /\ svc[t].reset
        /\ svc[u].pc = "idle" /\ Contains(svc[u].err, "timeout")
        /\ ~svc[u].tried /\ ~svc[u].reset

\* C17: when initLSPClient returns nil, the client the Service held at entry
\* (if any) has had Close invoked and is closed, and the current client is
\* another one, the latest spawned, initialized, open, with no Close invoked;
\* when it returns an error, the error wraps the error of NewGoplsClient or
\* that of the last Initialize.
C17_InitLSPClientResult ==
    [][\A t \in Threads :
          (svc[t].pc = "init_unlock" /\ svc'[t].pc # "init_unlock") =>
              IF svc[t].initRet = NoErr
              THEN /\ lspClient # NoClient
                   /\ lspClient = svc[t].new /\ lspClient = Len(clients)
                   /\ clients[lspClient].initialized
                   /\ ~clients[lspClient].closed
                   /\ clients[lspClient].closes = 0
                   /\ svc[t].old # NoClient =>
                          /\ svc[t].old # lspClient
                          /\ clients[svc[t].old].closes >= 1
                          /\ clients[svc[t].old].closed
              ELSE \/ svc[t].initRet = Wrap(<<"failed to create LSP client">>, ErrNoGopls)
                   \/ /\ svc[t].initErr # NoErr
                      /\ svc[t].initRet =
                            Wrap(<<"failed to initialize LSP client after multiple attempts">>,
                                 svc[t].initErr)]_vars

\* A reset has replaced a client by a new one, after a first Initialize of
\* the new one had failed.
C17_Witness ==
    \E t \in Threads :
        /\ svc[t].pc = "idle" /\ svc[t].caller = "reset" /\ svc[t].initRet = NoErr
        /\ svc[t].old # NoClient /\ svc[t].retries > 0
        /\ lspClient = svc[t].new

\* Every frame on the stream was written by SendMessage.
OnlySendMessage == \A i \in DOMAIN written : written[i].by = "SendMessage"

\* The messages SendMessage was given, in the order of the writes.
MessagesWritten == [i \in DOMAIN written |-> written[i].msg]

\* Those of them that carry an identifier.
WithID(ms) == SelectSeq(ms, LAMBDA m : m.id # NoID)

ProtocolError(e) ==
    Contains(e, "missing Content-Length header") \/ Contains(e, "invalid Content-Length")

\* C19, as claimed: when the reader, at the start of a frame whose header
\* block has no Content-Length header or one that does not parse, reads that
\* frame, ReceiveMessage returns a protocol error.
C19_LengthFromOwnHeader ==
    [][(/\ stream' # stream /\ written' = written
        /\ Aligned /\ queue # <<>>
        /\ Head(queue).kind \in {"bare", "nolen", "badlen"})
       => /\ Len(received') = Len(received) + 1
          /\ ProtocolError(received'[Len(received')].err)]_vars

\* The goroutines inside SendMessage, about to write to the stream.
Writers == Cardinality({t \in Threads : pc[t] \in {"call_send", "notify_send"}})

\* C20, as claimed: at every instant at most one goroutine is writing to the
\* stream and at most one is reading from it, also after a ReceiveMessage
\* has timed out.
C20_OneReadOneWrite == Writers <= 1 /\ Readers <= 1

\* The goroutine t has returned from the operation o of the Transport, which
\* it started after a SendMessage had failed in a write.
ReturnedLate(t, o) == snd[t].op = o /\ snd[t].late /\ snd[t].pc = "idle"

\* C21: once a SendMessage has failed while writing the header, the payload
\* or the flush, the Transport is closed, and every SendMessage and
\* ReceiveMessage started afterwards returns the 'transport closed' error
\* and never gets to the stream.
C21_FailedSendClosesTransport ==
    /\ sendFailed => tClosed
    /\ \A t \in Threads :
         /\ snd[t].late => ~snd[t].touched
         /\ \A o \in {"SendMessage", "ReceiveMessage"} :
              ReturnedLate(t, o) => snd[t].err = ErrTransportClosed

\* A SendMessage failed in its payload write, and a SendMessage and a
\* ReceiveMessage started afterwards have both returned.
C21_Witness ==
    /\ sendFailed
    /\ out # <<>> /\ out[Len(out)].part = "header"
    /\ \E t, u \in Threads :
         ReturnedLate(t, "SendMessage") /\ ReturnedLate(u, "ReceiveMessage")

\* The bytes are one whole frame that holds the message m: a header block
\* with a Content-Length line, the blank line, and a payload of the declared
\* length that decodes to m.
WholeFrame(bytes, m) ==
    \E h \in DOMAIN bytes :
        /\ bytes[h] = BlankLine
        /\ \A i \in 1..(h - 1) : IsLine(bytes[i]) /\ bytes[i] # BlankLine
        /\ \E i \in 1..(h - 1) : bytes[i].t = "len" /\ bytes[i].n = Len(bytes) - h
        /\ Unmarshals(Drop(bytes, h))
        /\ Unmarshal(Drop(bytes, h)) = m

\* C22, as claimed: whenever ReceiveMessage returns a message and not an
\* error, the bytes it took off the stream for it are one whole frame, the
\* message decoded from exactly the number of payload bytes that frame's
\* header declares; also when the stream has ended inside a frame.
C22_NoPartialFrame ==
    [][(/\ Len(received') = Len(received) + 1
        /\ received'[Len(received')].err = NoErr)
       => WholeFrame(SubSeq(stream, 1, Len(stream) - Len(stream')),
                     received'[Len(received')].msg)]_vars

\* The reader of t's ReceiveMessage has delivered the error response to t's
\* own request, and call is about to look at it.
ErrorResponseArrived(t) ==
    /\ pc[t] = "call_wait" /\ readMutex = t /\ ~reading
    /\ resultCh.err = NoErr
    /\ resultCh.msg = ErrorResponse(id[t])

\* The error names the server's message and its code.
NamesMessageAndCode(e) ==
    /\ Contains(e, "LSP error") /\ Contains(e, "code")
    /\ \E text \in ServerMessages : Contains(e, text)

\* C23: a call whose own response carries an error field returns an error
\* that holds the server's message and code, and the step leaves the closed
\* flag and the initialized field as they were.
C23_RemoteErrorKeepsClientOpen ==
    [][\A t \in Threads :
         (ErrorResponseArrived(t) /\ pc'[t] # pc[t])
         => /\ NamesMessageAndCode(cerr'[t])
            /\ closed' = closed
            /\ initialized' = initialized]_vars

\* A call has returned the server's error, the client is still open, and a
\* call with a later identifier has been answered without error.
C23_Witness ==
    \E t, u \in Threads :
        /\ op[t] = "call" /\ pc[t] = "idle" /\ NamesMessageAndCode(ret[t])
        /\ ~closed
        /\ op[u] = "call" /\ pc[u] = "idle" /\ ret[u] = NoErr
        /\ resp[u] = id[u] /\ id[u] > id[t] /\ id[t] # NoID

\* call is about to look at what the reader of its ReceiveMessage delivered.
ResultArrived(t) == pc[t] = "call_wait" /\ readMutex = t /\ ~reading

\* ReceiveMessage failed on malformed framing or on a payload it could not
\* decode.
IsFramingError(e) ==
    \/ Contains(e, "missing Content-Length header")
    \/ Contains(e, "invalid Content-Length")
    \/ Contains(e, "error deserializing JSON-RPC message")

\* C24, as claimed: when the ReceiveMessage of a call fails on malformed
\* framing or an undecodable payload, the call returns an error and the
\* client is marked closed.
C24_MalformedFrameClosesClient ==
    [][\A t \in Threads :
         (ResultArrived(t) /\ IsFramingError(resultCh.err) /\ pc'[t] # pc[t])
         => cerr'[t] # NoErr /\ closed']_vars

\* call returns to its caller, without error, the message it took off resultCh.
ReturnsMessage(t) ==
    /\ ResultArrived(t) /\ resultCh.err = NoErr
    /\ pc'[t] = AfterCall(op[t]) /\ cerr'[t] = NoErr

\* The id of the message m is the identifier i.
HasID(m, i) == m.form = "int" /\ m.id = i

\* C28, as claimed: a call returns no message whose id differs from the id
\* of its request, and a message with another id or an id of an unsupported
\* type is discarded: the call goes back to receiving, no error is set and
\* the closed flag is left alone.
C28_OnlyOwnResponse ==
    [][\A t \in Threads :
         /\ ReturnsMessage(t) => HasID(resultCh.msg, id[t])
         /\ (ResultArrived(t) /\ resultCh.err = NoErr /\ pc'[t] # pc[t]
                /\ ~HasID(resultCh.msg, id[t]))
            => pc'[t] = "call_recv" /\ cerr'[t] = NoErr /\ closed' = closed]_vars

\* C29, as claimed: the message a call returns is a response, never a
\* request of the server, whatever its id.
C29_ServerRequestIsNoResponse ==
    [][\A t \in Threads :
         ReturnsMessage(t) => resultCh.msg.kind = "response"]_vars

\* The goroutine t has returned from the typed operation o without error.
Succeeded(t, o) == op[t] = o /\ pc[t] = "idle" /\ ret[t] = NoErr

\* The value is an explicit status, no list of diagnostics.
IsPendingStatus(v) == IsMap(v) /\ IsString(Get(v, "status"))

\* C25, as claimed: a GetDiagnostics that returned without error has sent
\* one textDocument/didOpen notification and no request, and what it
\* returned is an explicit pending status, not a list of diagnostics.
C25_DiagnosticsPending ==
    \A t \in Threads :
        Succeeded(t, "GetDiagnostics")
        => /\ sent[t] = <<Notification("textDocument/didOpen")>>
           /\ IsPendingStatus(value[t])

\* The call of the typed operation o of t returned a response, and o has
\* returned to its caller.
Decoded(t, o) == op[t] = o /\ pc[t] = "idle" /\ cerr[t] = NoErr

\* The three shapes of a hover result that carry the text "docs".
DocsAsValue == JObject(<< <<"contents", JObject(<< <<"value", Docs>> >>)>> >>)

DocsAsString == JObject(<< <<"contents", Docs>> >>)

DocsAsArray == JObject(<< <<"contents", JArray(<<JObject(<< <<"value", Docs>> >>)>>)>> >>)

\* C26: GetHover fails with the no-hover-information error when the result
\* of the response is null or the empty object, and returns the text "docs"
\* without error for each of the three shapes of contents.
C26_HoverShapes ==
    \A t \in Threads :
        Decoded(t, "GetHover")
        => /\ result[t] \in {JNull, JObject(<<>>)} => ret[t] = ErrNoHover
           /\ result[t] \in {DocsAsValue, DocsAsString, DocsAsArray}
              => ret[t] = NoErr /\ value[t] = Docs

C26_Witness ==
    \E t \in Threads :
        /\ Decoded(t, "GetHover")
        /\ result[t] = DocsAsArray
        /\ value[t] = Docs

\* The item is an object with a string under "label".
HasStringLabel(item) ==
    /\ item.t = "object"
    /\ \E i \in DOMAIN item.kv : item.kv[i][1] = "label" /\ item.kv[i][2].t = "string"

\* The items of the decoded result that have a string label, in their order.
Labelled(r) ==
    IF \E i \in DOMAIN r.kv : r.kv[i][1] = "items" /\ r.kv[i][2].t = "array"
    THEN SelectSeq(Get(r, "items").items, HasStringLabel)
    ELSE <<>>

RequestsOut == SelectSeq(out, LAMBDA w : w.part = "header" /\ w.msg.kind = "request")

\* C30: however the goroutines in call and notify interleave, what the
\* writer has taken is a sequence of whole frames, the header of a message
\* followed at once by the payload of the same message (a header is last
\* only when its payload write failed), and the identifiers of the requests
\* increase strictly in the order they were written.
C30_WholeFramesInIDOrder ==
    /\ \A i \in DOMAIN out :
         /\ out[i].part = "header"
            => i = Len(out) \/ out[i + 1] = Payload(out[i].msg)
         /\ out[i].part = "payload"
            => i > 1 /\ out[i - 1] = Header(out[i].msg)
    /\ \A i, j \in DOMAIN RequestsOut :
         i < j => RequestsOut[i].msg.id < RequestsOut[j].msg.id

\* Two requests and a notification have been written whole while another
\* goroutine was inside call or notify.
C30_Witness ==
    /\ Len(RequestsOut) = 2
    /\ Len(out) = 6
    /\ \E t, u \in Threads :
         /\ t # u
         /\ snd[t].op = "call" /\ snd[u].op = "notify"
         /\ snd[t].pc = "recv_wait" /\ snd[u].pc = "idle"

\* Lines 296-301: Initialize returns nil exactly when its initialized
\* notification has been written.
InitializeSucceeded == \E i \in DOMAIN wire : wire[i] = Notification("initialized")

\* C31, as claimed: as long as no Initialize has succeeded on the client,
\* nothing but initialize requests has been written to the subprocess.
C31_OnlyInitializeBeforeHandshake ==
    ~InitializeSucceeded
    => \A i \in DOMAIN wire : wire[i].kind = "request" /\ wire[i].method = "initialize"

\* C32, as claimed: a request other than initialize and shutdown is written
\* to the subprocess only after the initialized notification.
C32_InitializedBeforeRequests ==
    \A i \in DOMAIN wire :
        (wire[i].kind = "request" /\ wire[i].method \notin {"initialize", "shutdown"})
        => \E j \in 1..(i - 1) : wire[j] = Notification("initialized")

\* The step takes a response frame off the subprocess's stdout.
TakesResponse ==
    /\ inbox # <<>>
    /\ Head(inbox).kind \in {"response", "error"}
    /\ inbox' = Tail(inbox)

\* C33, as claimed: every response frame taken off the subprocess's stdout
\* is handed, whole, to a ReceiveMessage that is still waiting; none is taken
\* by the reader a timed-out ReceiveMessage left behind.
C33_ResponsesReachWaitingReceive ==
    [][TakesResponse => (reading /\ resultCh' = Result(Head(inbox), NoErr))]_vars

\* The clients spawned by the Service whose subprocess is running.
Alive == {i \in DOMAIN clients : clients[i].alive}

\* C34, as claimed: whenever the Service's lock is free, at most one of the
\* subprocesses it spawned is still running.
C34_OneSubprocessAlive == clientMutex = Free => Cardinality(Alive) <= 1

\* The goroutine t, in a reset, passes lines 59-63 of initLSPClient while
\* the Service has a client.
ResetClosesCurrent(t) ==
    /\ svc[t].caller = "reset"
    /\ svc[t].pc = "init_close" /\ svc'[t].pc # "init_close"
    /\ lspClient # NoClient

\* C35, as claimed: a reset closes the current client only when the error
\* that asked for it came from that client; the error of a client that has
\* been replaced leaves the open, initialized client made by the earlier
\* reset in place.
C35_StaleErrorKeepsClient ==
    [][\A t \in Threads :
          ResetClosesCurrent(t)
          => \/ lspClient = svc[t].held
             \/ clients'[lspClient] = clients[lspClient] /\ lspClient' = lspClient]_vars

\* The tool handler of t comes back from GetLSPClient with no client: an
\* earlier reinitialization has failed and left the Service without one.
FindsNoClient(t) ==
    /\ svc[t].pc = "get" /\ svc'[t].pc # "get"
    /\ serviceUp /\ lspClient = NoClient

\* C36, as claimed: a tool invocation that finds the Service without a
\* client, after a failed reinitialization, starts another reinitialization.
C36_HandlerReinitializes ==
    [][\A t \in Threads : FindsNoClient(t) => svc'[t].pc = "init_lock"]_vars

\* The tool handler of t takes the client it is going to operate on.
TakesClient(t) ==
    /\ svc[t].pc \in {"get", "captured"}
    /\ svc'[t].pc \in {"use", "diagnose"}

\* The Service has replaced its first client and nobody is replacing the
\* current one.
Reinitialized == Len(clients) > 1 /\ lspClient # NoClient /\ clientMutex = Free

\* C37, as claimed: after a successful reinitialization, the client a tool
\* handler takes for its operation is the Service's current client.
C37_HandlersUseCurrentClient ==
    [][\A t \in Threads :
          (Reinitialized /\ TakesClient(t)) => svc'[t].held = lspClient]_vars

\* The goroutine t waits for c.mutex of the older client while it holds it.
WaitsForOwnMutex(t) ==
    pc[t] \in {"legacy_call_lock", "legacy_notify_lock", "legacy_close_lock"} /\ mutex = t

\* C38, as claimed: Close of the older client, and NewClient after a failed
\* initialize, go on to their return: no goroutine is ever left waiting for
\* the mutex it holds itself.
C38_LegacyCloseTerminates == \A t \in Threads : ~WaitsForOwnMutex(t)

\* C39, as claimed: a call of the older client that returns a result
\* returns that of the response that bears the identifier of its request.
C39_LegacyCallOwnResponse ==
    \A t \in Threads :
        (op[t] = "GetDefinition" /\ pc[t] = "idle" /\ ret[t] = NoErr /\ id[t] # NoID)
        => resp[t] = id[t]

\* The id of a request is present: the member is there and is not null.
IDPresent(j) == j.t \notin {"absent", "null"}

\* The response ServeStdio wrote to the request r bears the id the claim
\* gives it.
EchoesID(r, w) ==
    /\ w.id # JNull
    /\ w.id = IF IDPresent(r.id) THEN r.id ELSE JInteger(0, 0)

\* The request names a method, or a tool, that the server does not have.
UnknownTarget(r) ==
    \/ r.method \notin {"initialize", "listTools", "callTool"}
    \/ r.method = "callTool" /\ r.shape # "invalid" /\ r.tool = "no_such_tool"

\* C40, as claimed: when ServeStdio is about to read a request it has
\* written one response for each request decoded before; the id of each
\* response is never null, is the id of its request when there is one and 0
\* otherwise; an unknown method or tool is answered by the error -32601.
C40_OneResponsePerRequest ==
    /\ Len(written) <= Len(received)
    /\ Len(received) <= Len(written) + 1
    /\ pc["t1"] = "mcp_decode" => Len(written) = Len(received)
    /\ \A i \in DOMAIN written :
          /\ EchoesID(received[i], written[i])
          /\ UnknownTarget(received[i]) =>
                (written[i].kind = "error" /\ written[i].code = -32601)

====
